---------------------------- MODULE Spec2Model ----------------------------
(***************************************************************************)
(* A model of the streaming speech pipeline of eduassist-api:              *)
(*   - the server's websocket handler stt_stream (src/main.py): the        *)
(*     authenticator, session setup, the five fan-in tasks of pump_events  *)
(*     and the frame router with its gain normalization;                   *)
(*   - the two streaming clients (src/client.py, the wake-word client, and *)
(*     src/client_speech.py, the push-to-talk client): capture callback,   *)
(*     Gate (processor_task), Sender, Listener and key listener.           *)
(*                                                                         *)
(* Specifications:                                                         *)
(*   SpecNorm    the gain normalization applied to one binary payload      *)
(*   SpecServer  one connection handled by stt_stream: the multiplexer     *)
(*   SpecRouter  one connection handled by stt_stream: the frame router    *)
(*   Spec        one run of a streaming client                             *)
(*   SpecBurst   a client whose capture device outruns its consumers       *)
(*   SpecListener a client whose server may send any message               *)
(*   SpecQuiet   a client and a connection whose engine never fires a      *)
(*               recognized event                                          *)
(*   SpecStop    consecutive calls of a client's stop_stream               *)
(*   SpecKeys    one run of a streaming client whose user presses several  *)
(*               keys                                                      *)
(*   SpecSignal  a wake-word client whose Listener reads any message       *)
(*   SpecChunks  a client whose capture delivers chunks of any length      *)
(*   SpecDetector a wake-word client whose detector outcomes are recorded  *)
(*   SpecDrop    a wake-word client with a full send queue receiving final *)
(*               messages                                                  *)
(*   SpecFlood   a connection whose engine fires events faster than they   *)
(*               are forwarded                                             *)
(*   SpecFault   a connection whose audio sink may refuse a write          *)
(*   SpecAuth    a connection under every combination of configured key,   *)
(*               header and query parameter                                *)
(*   SpecHandshake a client from its connect on, with its connection       *)
(*               handler                                                   *)
(***************************************************************************)
EXTENDS Integers, Sequences, FiniteSets, TLC

VARIABLES
    \* ---- gain normalization of one payload (SpecNorm)
    n_in,        \* the bytes of msg["bytes"]
    n_flag,      \* normalize_flag
    n_out,       \* the bytes handed to push_stream.write
    n_done,      \* whether the payload has been routed
    \* ---- one connection of stt_stream (SpecServer)
    API_KEY,         \* the server's configured key ("" when unset)
    hdr_key,         \* the x-api-key header ("" when absent)
    qry_key,         \* the api_key query parameter ("" when absent)
    normalize_flag,  \* the normalize query parameter, decoded
    fault,           \* what fails in session setup: "none", "config", "start"
    s_pc,            \* where the handler stands
    push_stream,     \* the audio sink: "none", "open", "closed"
    sink,            \* the payloads written to the sink, in order
    recognizer,      \* "none", "created", "running", "stopped"
    queues,          \* the five event queues, by name
    tasks,           \* the five fan-in tasks: [pc, item]
    pump_task,       \* "none", "running", "finished", "cancelled"
    ws_out,          \* the messages the server wrote to the socket
    ws_state,        \* "open" or "closed" (by the server), with the close code
    peer_gone,       \* the client has disconnected: writes raise
    inbox,           \* client messages not yet received by the router
    rx_log,          \* the messages the router has received (history)
    emitted,         \* the engine events fired so far (history)
    \* ---- one run of a streaming client (Spec, SpecBurst)
    mode,               \* "wake" (client.py) or "speech" (client_speech.py)
    audio_q,            \* the capture queue
    send_q,             \* the send queue
    stream,             \* the device stream: "open" or "none"
    state,              \* "idle" or "recording"
    stop_recording_evt, \* the end-of-utterance event
    leftover,           \* the Gate's bytes short of one frame
    proc_task,          \* the Gate: "running", "done", "cancelled"
    send_task,          \* the Sender: [pc, chunk]
    recv_task,          \* the Listener: "running", "stopped", "cancelled"
    key_task,           \* the key listener: "wait", "x_send", "q_send", "done"
    run_pc,             \* run(): "await_key", "sleep", "closed"
    server_gone,        \* the server has gone: socket writes raise
    c_out,              \* the messages the client wrote to the socket
    ncap,               \* how many blocks the device has delivered
    nbytes,             \* how many bytes the device has delivered
    audio_dropped,      \* the blocks refused by a full capture queue (history)
    glog,               \* one entry per frame the Gate acted on (history)
    finals,             \* how many final messages the Listener handled (history)
    nkeys,              \* how many keys were pressed (history)
    \* ---- calls of the client's stop_stream (SpecStop)
    stop_pc,            \* "idle" (no call under way) or "send" (at its await)
    stop_calls,         \* how many calls were made (history)
    \* ---- what the Listener read (SpecSignal)
    last_msg,           \* the kind of the message read last (history)
    \* ---- what the detector did (SpecDetector)
    det                 \* its outcome on each frame the Gate acted on (history)

nvars == <<n_in, n_flag, n_out, n_done>>

svars == <<API_KEY, hdr_key, qry_key, normalize_flag, fault, s_pc, push_stream,
           sink, recognizer, queues, tasks, pump_task, ws_out, ws_state,
           peer_gone, inbox, rx_log, emitted>>

cvars == <<mode, audio_q, send_q, stream, state, stop_recording_evt, leftover,
           proc_task, send_task, recv_task, key_task, run_pc, server_gone,
           c_out, ncap, nbytes, audio_dropped, glog, finals, nkeys>>

tvars == <<stop_pc, stop_calls, last_msg, det>>

vars == <<nvars, svars, cvars, tvars>>

(***************************************************************************)
(* Generic helpers                                                         *)
(***************************************************************************)
Abs(x) == IF x < 0 THEN -x ELSE x

Max2(a, b) == IF a >= b THEN a ELSE b

Min2(a, b) == IF a <= b THEN a ELSE b

RECURSIVE Pow2(_)
Pow2(k) == IF k <= 0 THEN 1 ELSE 2 * Pow2(k - 1)

\* floor(log2(n)) for n >= 1
RECURSIVE Log2Floor(_)
Log2Floor(n) == IF n < 2 THEN 0 ELSE 1 + Log2Floor(n \div 2)

SeqMax(s) == CHOOSE m \in {s[i] : i \in 1..Len(s)} :
                \A i \in 1..Len(s) : s[i] <= m

\* all sequences over S of length 0..n
SeqsUpTo(S, n) == UNION {[1..k -> S] : k \in 0..n}

(***************************************************************************)
(* Gain normalization (src/main.py, frame router).                         *)
(*                                                                         *)
(* numpy's int16 and float32 arithmetic is modelled on integers:           *)
(*   - np.abs on int16 wraps: abs(-32768) = -32768;                        *)
(*   - gain is a Python float; multiplied with a float32 array it is cast  *)
(*     to float32 (24-bit significand, round half to even): it is          *)
(*     G / 2^s with 2^23 <= G < 2^24;                                      *)
(*   - each product is rounded to float32, clipped, then truncated toward  *)
(*     zero by astype(int16).                                              *)
(***************************************************************************)
INT16_MIN == -32768

INT16_MAX == 32767

TARGET_PEAK == 30000

MAX_GAIN == 3

\* np.frombuffer(data, dtype=np.int16): little-endian two's complement
frombuffer(b) ==
    [i \in 1..(Len(b) \div 2) |->
        LET u == b[2 * i - 1] + 256 * b[2 * i]
        IN  IF u >= 32768 THEN u - 65536 ELSE u]

\* arr.tobytes() of an int16 array
tobytes(a) ==
    [j \in 1..(2 * Len(a)) |->
        LET u == a[(j + 1) \div 2] % 65536
        IN  IF j % 2 = 1 THEN u % 256 ELSE u \div 256]

\* np.abs on one int16 element
abs_int16(x) == IF x = INT16_MIN THEN INT16_MIN ELSE Abs(x)

\* int(np.max(np.abs(arr)))
maxv_of(arr) == SeqMax([i \in 1..Len(arr) |-> abs_int16(arr[i])])

\* s times: one binary digit of the quotient num/p, as <<quotient, remainder>>
RECURSIVE LongDiv(_, _, _, _)
LongDiv(q, r, p, s) ==
    IF s = 0 THEN <<q, r>>
    ELSE LET r2 == 2 * r
         IN  IF r2 >= p THEN LongDiv(2 * q + 1, r2 - p, p, s - 1)
                        ELSE LongDiv(2 * q, r2, p, s - 1)

\* gain_f32 with the cap written as 2.0 instead of 3.0
gain_f32_cap2(maxv) ==
    IF 2 * maxv <= TARGET_PEAK THEN <<Pow2(23), 22>>
    ELSE LET qr == LongDiv(TARGET_PEAK \div maxv, TARGET_PEAK % maxv, maxv, 23)
             up == 2 * qr[2] > maxv \/ (2 * qr[2] = maxv /\ qr[1] % 2 = 1)
         IN  <<IF up THEN qr[1] + 1 ELSE qr[1], 23>>

\* np.float32(min(3.0, 30000.0 / maxv)) for 0 < maxv < 30000, as <<G, s>>:
\* the gain is G / 2^s
gain_f32(maxv) ==
    IF MAX_GAIN * maxv <= TARGET_PEAK THEN <<MAX_GAIN * Pow2(22), 22>>
    ELSE LET s  == IF 2 * maxv > TARGET_PEAK THEN 23 ELSE 22
             qr == LongDiv(TARGET_PEAK \div maxv, TARGET_PEAK % maxv, maxv, s)
             q  == qr[1]
             r  == qr[2]
             up == 2 * r > maxv \/ (2 * r = maxv /\ q % 2 = 1)
         IN  <<IF up THEN q + 1 ELSE q, s>>

\* int(float32(ax) * float32 gain) for ax > 0: the float32 product, truncated.
\* The product ax*G is split in 12-bit limbs to stay inside 32-bit integers.
mul_f32_trunc(ax, g) ==
    LET G   == g[1]
        s   == g[2]
        A   == ax * (G \div 4096)
        B   == ax * (G % 4096)
        C   == A + (B \div 4096)
        sh  == Pow2(s - 12)
        n   == C \div sh
        rem == (C % sh) * 4096 + (B % 4096)
        k   == s + Log2Floor(n) - 24
    IN  IF rem = 0 THEN n
        ELSE IF k >= 0 /\ Pow2(s) - rem <= Pow2(k) THEN n + 1
        ELSE n

\* np.clip(v, -32768.0, 32767.0) on the integer part
clip_int16(v) == Max2(INT16_MIN, Min2(INT16_MAX, v))

\* one element of np.clip(arr.astype(float32) * gain, ...).astype(int16)
scale_sample(x, g) ==
    IF x = 0 THEN 0
    ELSE LET m == mul_f32_trunc(Abs(x), g)
         IN  clip_int16(IF x < 0 THEN -m ELSE m)

\* gain_applies without the test gain > 1.0
gain_applies_any_gain(arr) ==
    /\ Len(arr) > 0
    /\ maxv_of(arr) > 0

\* arr.size > 0, maxv > 0 and gain = min(3.0, 30000.0 / maxv) > 1.0
gain_applies(arr) ==
    /\ Len(arr) > 0
    /\ maxv_of(arr) > 0
    /\ maxv_of(arr) < TARGET_PEAK

\* the array after main.py lines 228-234
normalize_arr(arr) ==
    IF gain_applies(arr)
    THEN LET g == gain_f32(maxv_of(arr))
         IN  [i \in 1..Len(arr) |-> scale_sample(arr[i], g)]
    ELSE arr

\* route_bytes without the fallback to the raw bytes
route_bytes_no_fallback(flag, data) ==
    IF ~flag THEN data ELSE tobytes(normalize_arr(frombuffer(data)))

\* data_bytes as handed to push_stream.write (main.py lines 224-238);
\* frombuffer raises on an odd length and the except falls back to the raw bytes
route_bytes(flag, data) ==
    IF ~flag THEN data
    ELSE IF Len(data) % 2 # 0 THEN data
    ELSE LET arr == frombuffer(data)
         IN  IF gain_applies(arr) THEN tobytes(normalize_arr(arr)) ELSE data

(***************************************************************************)
(* SpecNorm: one payload through the router's normalization                *)
(***************************************************************************)
MaxSamples == 2

NormSamples == {-32768, -30000, -10013, -1, 0, 1, 100,
                10000, 10013, 15000, 29999, 30000, 32767}

NormFrames == SeqsUpTo(NormSamples, MaxSamples) \ {<<>>}

NormInit ==
    /\ n_flag \in BOOLEAN
    /\ \E a \in NormFrames, odd \in BOOLEAN :
          n_in = IF odd THEN tobytes(a) \o <<7>> ELSE tobytes(a)
    /\ n_out = <<>>
    /\ n_done = FALSE

NormIdle ==
    /\ n_flag = FALSE
    /\ n_in = <<>>
    /\ n_out = <<>>
    /\ n_done = FALSE

NormPush ==
    /\ ~n_done
    /\ n_out' = route_bytes(n_flag, n_in)
    /\ n_done' = TRUE
    /\ UNCHANGED <<n_in, n_flag>>
    /\ UNCHANGED <<svars, cvars, tvars>>

NormNext == NormPush

(***************************************************************************)
(* The server: stt_stream (src/main.py lines 69-257)                       *)
(***************************************************************************)
\* SpecServer: engine events fired, client messages sent
MaxEvents == 2

MuxInbound == 1

\* SpecRouter: engine events fired, client messages sent
RouterEvents == 1

MaxInbound == 2

\* SpecFault: engine events fired, client messages sent
FaultEvents == 1

FaultInbound == 2

\* SpecFlood: engine events fired
FloodEvents == 21

CLOSE_UNAUTHORIZED == 4401

\* the engine's event classes, split by what handle_canceled reads
EventKinds == {"recognizing", "recognized", "canceled_error", "canceled_eos",
               "session_started", "session_stopped"}

QueueNames == {"recognizing_q", "recognized_q", "canceled_q",
               "session_started_q", "session_stopped_q"}

TaskNames == {"process_recognizing", "process_recognized", "process_canceled",
              "process_session", "process_session_stop"}

\* the queue each fan-in task drains
queue_of(t) ==
    CASE t = "process_recognizing"  -> "recognizing_q"
      [] t = "process_recognized"   -> "recognized_q"
      [] t = "process_canceled"     -> "canceled_q"
      [] t = "process_session"      -> "session_started_q"
      [] t = "process_session_stop" -> "session_stopped_q"

\* handler_queue with handle_canceled not reading the reason
handler_queue_any_cancel(ev) ==
    CASE ev = "recognizing"     -> "recognizing_q"
      [] ev = "recognized"      -> "recognized_q"
      [] ev = "canceled_error"  -> "canceled_q"
      [] ev = "canceled_eos"    -> "canceled_q"
      [] ev = "session_started" -> "session_started_q"
      [] ev = "session_stopped" -> "session_stopped_q"

\* the queue a handler puts an event on (handle_canceled reads the reason)
handler_queue(ev) ==
    CASE ev = "recognizing"     -> "recognizing_q"
      [] ev = "recognized"      -> "recognized_q"
      [] ev = "canceled_error"  -> "canceled_q"
      [] ev = "canceled_eos"    -> "session_stopped_q"
      [] ev = "session_started" -> "session_started_q"
      [] ev = "session_stopped" -> "session_stopped_q"

Msg(type, arg, src) == [type |-> type, arg |-> arg, src |-> src]

\* the message a fan-in task sends for the item it took (src: the event's number)
task_message(t, item) ==
    CASE t = "process_recognizing"  -> Msg("partial", "text", item.id)
      [] t = "process_recognized"   -> Msg("final", "text", item.id)
      [] t = "process_canceled"     -> Msg("error", "canceled", item.id)
      [] t = "process_session"      -> Msg("session", "started", item.id)
      [] t = "process_session_stop" -> Msg("session", "stopped", item.id)

NoItem == [id |-> 0, ev |-> "none"]

STOP_TEXT == "{\"event\":\"stop\"}"

\* the texts a client may send: the stop event, another object, a JSON value
\* that is no object, text that is no JSON, and the empty text
ControlTexts == {STOP_TEXT, "{\"event\":\"go\"}", "[1]", "oops", ""}

\* control_action acknowledging every JSON object, whatever its event
control_action_acks_any_object(text) ==
    IF text \in {STOP_TEXT, "{\"event\":\"go\"}"} THEN "ack" ELSE "ignore"

\* what lines 214-221 do with a text: "ack" (send stop_ack, continue) or
\* "ignore" (json.loads or data.get raised, or the event is not stop)
control_action(text) ==
    IF text = "" THEN "ignore"
    ELSE IF text = STOP_TEXT THEN "ack"
    ELSE "ignore"

\* binary payloads: a quiet frame, the empty payload, an odd-length payload
ServerPayloads == {tobytes(<<100, -200>>), <<>>, <<7>>}

InMsg(kind, text, bytes) == [kind |-> kind, text |-> text, bytes |-> bytes]

InboundMsgs ==
    {InMsg("text", t, <<>>) : t \in ControlTexts}
        \cup {InMsg("bytes", "", b) : b \in ServerPayloads}

\* the client messages of SpecServer: one audio frame (SpecRouter has them all)
MuxInboundMsgs == {InMsg("bytes", "", tobytes(<<100, -200>>))}

\* the engine events of SpecRouter
RouterEventKinds == {"recognized", "session_stopped"}

\* x_api_key with the query parameter taking precedence over the header
x_api_key_query_first == IF qry_key # "" THEN qry_key ELSE hdr_key

\* x_api_key = headers.get("x-api-key") or ws.query_params.get("api_key")
x_api_key == IF hdr_key # "" THEN hdr_key ELSE qry_key

\* authorized without the `not API_KEY` test
authorized_unset_key == x_api_key = API_KEY

\* not (not API_KEY or x_api_key != API_KEY)
authorized == API_KEY # "" /\ x_api_key = API_KEY

\* the handler after ws.accept(), for a server key, credentials, a normalize
\* parameter and a setup fault drawn from the given sets
ServerStart(keys, hdrs, qrys, flags, faults) ==
    /\ API_KEY \in keys
    /\ hdr_key \in hdrs
    /\ qry_key \in qrys
    /\ normalize_flag \in flags
    /\ fault \in faults
    /\ s_pc = "auth"
    /\ push_stream = "none"
    /\ sink = <<>>
    /\ recognizer = "none"
    /\ queues = [q \in QueueNames |-> <<>>]
    /\ tasks = [t \in TaskNames |-> [pc |-> "none", item |-> NoItem]]
    /\ pump_task = "none"
    /\ ws_out = <<>>
    /\ ws_state = [state |-> "open", code |-> 0]
    /\ peer_gone = FALSE
    /\ inbox = <<>>
    /\ rx_log = <<>>
    /\ emitted = <<>>

ServerIdle ==
    /\ API_KEY = ""
    /\ hdr_key = ""
    /\ qry_key = ""
    /\ normalize_flag = FALSE
    /\ fault = "none"
    /\ s_pc = "done"
    /\ push_stream = "none"
    /\ sink = <<>>
    /\ recognizer = "none"
    /\ queues = [q \in QueueNames |-> <<>>]
    /\ tasks = [t \in TaskNames |-> [pc |-> "none", item |-> NoItem]]
    /\ pump_task = "none"
    /\ ws_out = <<>>
    /\ ws_state = [state |-> "closed", code |-> 0]
    /\ peer_gone = FALSE
    /\ inbox = <<>>
    /\ rx_log = <<>>
    /\ emitted = <<>>

\* await ws.send_json(m) by the handler: the message is written, or the write
\* raises because the peer is gone
can_send == ~peer_gone /\ ws_state.state = "open"

\* lines 73-158: the credential check, then session setup up to the await of
\* start_continuous_recognition
authenticate ==
    /\ s_pc = "auth"
    /\ IF ~authorized
       THEN /\ IF can_send
               THEN /\ ws_out' = Append(ws_out, Msg("error", "unauthorized", 0))
                    /\ s_pc' = "unauthorized_close"
               ELSE /\ ws_out' = ws_out
                    /\ s_pc' = "except"
            /\ UNCHANGED <<push_stream, recognizer>>
       ELSE /\ push_stream' = "open"
            /\ IF fault = "config"
               THEN /\ s_pc' = "except"
                    /\ recognizer' = recognizer
               ELSE /\ s_pc' = "start"
                    /\ recognizer' = "created"
            /\ ws_out' = ws_out
    /\ UNCHANGED <<nvars, cvars, tvars>>
    /\ UNCHANGED <<API_KEY, hdr_key, qry_key, normalize_flag, fault, sink, queues,
                   tasks, pump_task, ws_state, peer_gone, inbox, rx_log, emitted>>

\* line 77: await ws.close(code=4401); return
unauthorized_close ==
    /\ s_pc = "unauthorized_close"
    /\ IF peer_gone
       THEN /\ s_pc' = "except"
            /\ ws_state' = ws_state
       ELSE /\ s_pc' = "done"
            /\ ws_state' = [state |-> "closed", code |-> CLOSE_UNAUTHORIZED]
    /\ UNCHANGED <<nvars, cvars, tvars>>
    /\ UNCHANGED <<API_KEY, hdr_key, qry_key, normalize_flag, fault, push_stream,
                   sink, recognizer, queues, tasks, pump_task, ws_out, peer_gone,
                   inbox, rx_log, emitted>>

\* start_recognition with pump_events started before the ready message
start_recognition_pump_first ==
    /\ s_pc = "start"
    /\ IF fault = "start"
       THEN /\ s_pc' = "except"
            /\ UNCHANGED <<recognizer, pump_task, tasks>>
       ELSE /\ s_pc' = "ready"
            /\ recognizer' = "running"
            /\ pump_task' = "running"
            /\ tasks' = [t \in TaskNames |-> [pc |-> "get", item |-> NoItem]]
    /\ UNCHANGED <<nvars, cvars, tvars>>
    /\ UNCHANGED <<API_KEY, hdr_key, qry_key, normalize_flag, fault, push_stream,
                   sink, queues, ws_out, ws_state, peer_gone, inbox, rx_log,
                   emitted>>

\* line 160: await run_in_executor(recognizer.start_continuous_recognition)
start_recognition ==
    /\ s_pc = "start"
    /\ IF fault = "start"
       THEN /\ s_pc' = "except"
            /\ recognizer' = recognizer
       ELSE /\ s_pc' = "ready"
            /\ recognizer' = "running"
    /\ UNCHANGED <<nvars, cvars, tvars>>
    /\ UNCHANGED <<API_KEY, hdr_key, qry_key, normalize_flag, fault, push_stream,
                   sink, queues, tasks, pump_task, ws_out, ws_state, peer_gone,
                   inbox, rx_log, emitted>>

\* lines 162-206: await ws.send_json({"type": "ready"}), then create_task(pump_events())
send_ready ==
    /\ s_pc = "ready"
    /\ IF can_send
       THEN /\ ws_out' = Append(ws_out, Msg("ready", "", 0))
            /\ pump_task' = "running"
            /\ tasks' = [t \in TaskNames |-> [pc |-> "get", item |-> NoItem]]
            /\ s_pc' = "loop"
       ELSE /\ s_pc' = "except"
            /\ UNCHANGED <<ws_out, pump_task, tasks>>
    /\ UNCHANGED <<nvars, cvars, tvars>>
    /\ UNCHANGED <<API_KEY, hdr_key, qry_key, normalize_flag, fault, push_stream,
                   sink, recognizer, queues, ws_state, peer_gone, inbox, rx_log,
                   emitted>>

\* an engine callback (lines 116-152): the handler puts the event on its queue
engine_event(ev, bound) ==
    /\ recognizer = "running"
    /\ Len(emitted) < bound
    /\ LET item == [id |-> Len(emitted) + 1, ev |-> ev]
           q    == handler_queue(ev)
       IN  /\ queues' = [queues EXCEPT ![q] = Append(@, item)]
           /\ emitted' = Append(emitted, [id |-> item.id, ev |-> ev, at |-> s_pc])
    /\ UNCHANGED <<nvars, cvars, tvars>>
    /\ UNCHANGED <<API_KEY, hdr_key, qry_key, normalize_flag, fault, s_pc,
                   push_stream, sink, recognizer, tasks, pump_task, ws_out,
                   ws_state, peer_gone, inbox, rx_log>>

\* task_get taking the newest item of the queue
task_get_newest(t) ==
    /\ tasks[t].pc = "get"
    /\ queues[queue_of(t)] # <<>>
    /\ LET q == queues[queue_of(t)]
       IN  /\ tasks' = [tasks EXCEPT ![t] = [pc |-> "send", item |-> q[Len(q)]]]
           /\ queues' = [queues EXCEPT ![queue_of(t)] = SubSeq(q, 1, Len(q) - 1)]
    /\ UNCHANGED <<nvars, cvars, tvars>>
    /\ UNCHANGED <<API_KEY, hdr_key, qry_key, normalize_flag, fault, s_pc,
                   push_stream, sink, recognizer, pump_task, ws_out, ws_state,
                   peer_gone, inbox, rx_log, emitted>>

\* a fan-in task's `await <queue>.get()` returning an item
task_get(t) ==
    /\ tasks[t].pc = "get"
    /\ queues[queue_of(t)] # <<>>
    /\ tasks' = [tasks EXCEPT ![t] = [pc |-> "send",
                                      item |-> Head(queues[queue_of(t)])]]
    /\ queues' = [queues EXCEPT ![queue_of(t)] = Tail(@)]
    /\ UNCHANGED <<nvars, cvars, tvars>>
    /\ UNCHANGED <<API_KEY, hdr_key, qry_key, normalize_flag, fault, s_pc,
                   push_stream, sink, recognizer, pump_task, ws_out, ws_state,
                   peer_gone, inbox, rx_log, emitted>>

\* a fan-in task's `await ws.send_json(...)`: the write, or the exception that
\* ends the task and, through gather, pump_events (its siblings keep running)
task_send(t) ==
    /\ tasks[t].pc = "send"
    /\ IF can_send
       THEN /\ ws_out' = Append(ws_out, task_message(t, tasks[t].item))
            /\ tasks' = [tasks EXCEPT ![t] = [pc |-> "get", item |-> NoItem]]
            /\ pump_task' = pump_task
       ELSE /\ ws_out' = ws_out
            /\ tasks' = [tasks EXCEPT ![t] = [pc |-> "failed", item |-> @.item]]
            /\ pump_task' = IF pump_task = "running" THEN "finished" ELSE pump_task
    /\ UNCHANGED <<nvars, cvars, tvars>>
    /\ UNCHANGED <<API_KEY, hdr_key, qry_key, normalize_flag, fault, s_pc,
                   push_stream, sink, recognizer, queues, ws_state, peer_gone,
                   inbox, rx_log, emitted>>

\* the client writes one message to the socket
client_send(m, bound) ==
    /\ ~peer_gone
    /\ ws_state.state = "open"
    /\ Len(rx_log) + Len(inbox) < bound
    /\ inbox' = Append(inbox, m)
    /\ UNCHANGED <<nvars, cvars, tvars>>
    /\ UNCHANGED <<API_KEY, hdr_key, qry_key, normalize_flag, fault, s_pc,
                   push_stream, sink, recognizer, queues, tasks, pump_task,
                   ws_out, ws_state, peer_gone, rx_log, emitted>>

\* the client goes away: the router will read websocket.disconnect
client_disconnect ==
    /\ ~peer_gone
    /\ ws_state.state = "open"
    /\ peer_gone' = TRUE
    /\ inbox' = Append(inbox, InMsg("disconnect", "", <<>>))
    /\ UNCHANGED <<nvars, cvars, tvars>>
    /\ UNCHANGED <<API_KEY, hdr_key, qry_key, normalize_flag, fault, s_pc,
                   push_stream, sink, recognizer, queues, tasks, pump_task,
                   ws_out, ws_state, rx_log, emitted>>

\* frame_router treating the stop event as the end of the stream
frame_router_stop_ends ==
    /\ s_pc = "loop"
    /\ inbox # <<>>
    /\ LET msg == Head(inbox)
       IN  /\ inbox' = Tail(inbox)
           /\ rx_log' = Append(rx_log, msg)
           /\ IF msg.kind = "disconnect"
              THEN /\ push_stream' = "closed"
                   /\ s_pc' = "stop"
                   /\ UNCHANGED <<ws_out, sink>>
              ELSE IF msg.kind = "text"
              THEN /\ ws_out' = IF control_action(msg.text) = "ack" /\ can_send
                                THEN Append(ws_out, Msg("info", "stop_ack", 0))
                                ELSE ws_out
                   /\ IF control_action(msg.text) = "ack"
                      THEN push_stream' = "closed" /\ s_pc' = "stop"
                      ELSE UNCHANGED <<push_stream, s_pc>>
                   /\ sink' = sink
              ELSE /\ sink' = IF msg.bytes # <<>>
                              THEN Append(sink, route_bytes(normalize_flag, msg.bytes))
                              ELSE sink
                   /\ UNCHANGED <<push_stream, ws_out, s_pc>>
    /\ UNCHANGED <<nvars, cvars, tvars>>
    /\ UNCHANGED <<API_KEY, hdr_key, qry_key, normalize_flag, fault, recognizer,
                   queues, tasks, pump_task, ws_state, peer_gone, emitted>>

\* lines 208-241: one turn of the router loop on the next message; on a
\* disconnect the loop is left and push_stream.close() runs
frame_router ==
    /\ s_pc = "loop"
    /\ inbox # <<>>
    /\ LET msg == Head(inbox)
       IN  /\ inbox' = Tail(inbox)
           /\ rx_log' = Append(rx_log, msg)
           /\ IF msg.kind = "disconnect"
              THEN /\ push_stream' = "closed"
                   /\ s_pc' = "stop"
                   /\ UNCHANGED <<ws_out, sink>>
              ELSE IF msg.kind = "text"
              THEN /\ ws_out' = IF control_action(msg.text) = "ack" /\ can_send
                                THEN Append(ws_out, Msg("info", "stop_ack", 0))
                                ELSE ws_out
                   /\ UNCHANGED <<push_stream, sink, s_pc>>
              ELSE /\ sink' = IF msg.bytes # <<>>
                              THEN Append(sink, route_bytes(normalize_flag, msg.bytes))
                              ELSE sink
                   /\ UNCHANGED <<push_stream, ws_out, s_pc>>
    /\ UNCHANGED <<nvars, cvars, tvars>>
    /\ UNCHANGED <<API_KEY, hdr_key, qry_key, normalize_flag, fault, recognizer,
                   queues, tasks, pump_task, ws_state, peer_gone, emitted>>

\* one turn of the router loop in which push_stream.write(data_bytes) raises
\* (line 239): the exception leaves the loop and the try, past lines 241-248
sink_write_raises ==
    /\ s_pc = "loop"
    /\ inbox # <<>>
    /\ Head(inbox).kind = "bytes"
    /\ Head(inbox).bytes # <<>>
    /\ inbox' = Tail(inbox)
    /\ rx_log' = Append(rx_log, Head(inbox))
    /\ s_pc' = "except"
    /\ UNCHANGED <<nvars, cvars, tvars>>
    /\ UNCHANGED <<API_KEY, hdr_key, qry_key, normalize_flag, fault, push_stream,
                   sink, recognizer, queues, tasks, pump_task, ws_out, ws_state,
                   peer_gone, emitted>>

\* lines 242-247: stop_continuous_recognition returns, then pump_task.cancel()
\* and `await pump_task`: a running gather cancels its five children and the
\* CancelledError is swallowed; a pump_task already ended by a failed send
\* (pump_events swallows the exception, lines 203-204) is not cancelled, and
\* awaiting it returns at once
stop_and_cancel ==
    /\ s_pc = "stop"
    /\ recognizer' = "stopped"
    /\ IF pump_task = "running"
       THEN /\ pump_task' = "cancelled"
            /\ tasks' = [t \in TaskNames |->
                           IF tasks[t].pc \in {"get", "send"}
                           THEN [pc |-> "cancelled", item |-> tasks[t].item]
                           ELSE tasks[t]]
       ELSE UNCHANGED <<pump_task, tasks>>
    /\ s_pc' = "close"
    /\ UNCHANGED <<nvars, cvars, tvars>>
    /\ UNCHANGED <<API_KEY, hdr_key, qry_key, normalize_flag, fault, push_stream,
                   sink, queues, ws_out, ws_state, peer_gone, inbox, rx_log,
                   emitted>>

\* line 248: await ws.close()
close_socket ==
    /\ s_pc = "close"
    /\ ws_state' = [state |-> "closed", code |-> 1000]
    /\ s_pc' = "done"
    /\ UNCHANGED <<nvars, cvars, tvars>>
    /\ UNCHANGED <<API_KEY, hdr_key, qry_key, normalize_flag, fault, push_stream,
                   sink, recognizer, queues, tasks, pump_task, ws_out, peer_gone,
                   inbox, rx_log, emitted>>

\* handle_exception treating every exception like WebSocketDisconnect
handle_exception_silent ==
    /\ s_pc = "except"
    /\ s_pc' = "done"
    /\ UNCHANGED <<nvars, cvars, tvars>>
    /\ UNCHANGED <<API_KEY, hdr_key, qry_key, normalize_flag, fault, push_stream,
                   sink, recognizer, queues, tasks, pump_task, ws_out, ws_state,
                   peer_gone, inbox, rx_log, emitted>>

\* lines 250-257: except WebSocketDisconnect: pass; except Exception: try to
\* send one error message and close
handle_exception ==
    /\ s_pc = "except"
    /\ IF can_send
       THEN /\ ws_out' = Append(ws_out, Msg("error", "exception", 0))
            /\ ws_state' = [state |-> "closed", code |-> 1000]
       ELSE UNCHANGED <<ws_out, ws_state>>
    /\ s_pc' = "done"
    /\ UNCHANGED <<nvars, cvars, tvars>>
    /\ UNCHANGED <<API_KEY, hdr_key, qry_key, normalize_flag, fault, push_stream,
                   sink, recognizer, queues, tasks, pump_task, peer_gone, inbox,
                   rx_log, emitted>>

(***************************************************************************)
(* The streaming clients: run() of src/client.py and src/client_speech.py, *)
(* from the point where the three tasks and the device stream are started  *)
(***************************************************************************)
\* frame_len, in samples
FrameLen == 1

\* blocks the device delivers in Spec
MaxCapture == 4

\* final messages the server sends in Spec
MaxFinals == 1

\* nkeys pressed in Spec
MaxKeys == 1

\* blocks the device delivers in SpecBurst
MaxBurst == 24

\* blocks the device delivers in SpecHandshake
HandshakeCapture == 3

\* asyncio.Queue(maxsize=20), for audio_q and send_q
maxsize == 20

\* bytes_per_frame = frame_len * 2
bytes_per_frame == FrameLen * 2

\* the sentinel None (audio bytes are numbered from 1)
None == <<-1>>

\* what porcupine.process(frame) does: -1, an index >= 0, or an exception
DetectorOutcomes == {"none", "keyword", "error"}

\* the messages of the wire protocol the Listener may read
ServerMsgKinds == {"ready", "partial", "final", "error", "session", "info"}

Range(a, b) == [i \in 1..(b - a + 1) |-> a + i - 1]

\* put_nowait on a queue without a capacity
put_nowait_unbounded(q, item) == Append(q, item)

\* q.put_nowait(item): the queue after the call (QueueFull leaves it as it was)
put_nowait(q, item) == IF Len(q) < maxsize THEN Append(q, item) ELSE q

ClientInit ==
    /\ mode \in {"wake", "speech"}
    /\ audio_q = <<>>
    /\ send_q = <<>>
    /\ stream = "open"
    /\ state = "idle"
    /\ stop_recording_evt = FALSE
    /\ leftover = <<>>
    /\ proc_task = "running"
    /\ send_task = [pc |-> "get", chunk |-> <<>>]
    /\ recv_task = "running"
    /\ key_task = "wait"
    /\ run_pc = "await_key"
    /\ server_gone = FALSE
    /\ c_out = <<>>
    /\ ncap = 0
    /\ nbytes = 0
    /\ audio_dropped = 0
    /\ glog = <<>>
    /\ finals = 0
    /\ nkeys = 0

ClientIdle ==
    /\ mode = "wake"
    /\ audio_q = <<>>
    /\ send_q = <<>>
    /\ stream = "none"
    /\ state = "idle"
    /\ stop_recording_evt = FALSE
    /\ leftover = <<>>
    /\ proc_task = "done"
    /\ send_task = [pc |-> "done", chunk |-> <<>>]
    /\ recv_task = "stopped"
    /\ key_task = "done"
    /\ run_pc = "closed"
    /\ server_gone = FALSE
    /\ c_out = <<>>
    /\ ncap = 0
    /\ nbytes = 0
    /\ audio_dropped = 0
    /\ glog = <<>>
    /\ finals = 0
    /\ nkeys = 0

\* run() inside `async with websockets.connect(...)` (client.py 77-79), at
\* `ready = await ws.recv()`: no queue, task or device stream exists yet
ClientWaiting ==
    /\ mode \in {"wake", "speech"}
    /\ audio_q = <<>>
    /\ send_q = <<>>
    /\ stream = "none"
    /\ state = "idle"
    /\ stop_recording_evt = FALSE
    /\ leftover = <<>>
    /\ proc_task = "none"
    /\ send_task = [pc |-> "none", chunk |-> <<>>]
    /\ recv_task = "none"
    /\ key_task = "none"
    /\ run_pc = "recv_ready"
    /\ server_gone = FALSE
    /\ c_out = <<>>
    /\ ncap = 0
    /\ nbytes = 0
    /\ audio_dropped = 0
    /\ glog = <<>>
    /\ finals = 0
    /\ nkeys = 0

\* the three tasks, the device stream and the key listener are started
\* (client.py 212-217, 256)
start_tasks ==
    /\ proc_task' = "running"
    /\ send_task' = [pc |-> "get", chunk |-> <<>>]
    /\ recv_task' = "running"
    /\ stream' = "open"
    /\ key_task' = "wait"
    /\ run_pc' = "await_key"
    /\ UNCHANGED <<mode, audio_q, send_q, state, stop_recording_evt, leftover,
                   server_gone, c_out, ncap, nbytes, audio_dropped, glog, finals,
                   nkeys>>
    /\ UNCHANGED <<nvars, svars, tvars>>

\* run() starting its tasks without waiting for the server's first message
run_recv_ready_no_wait ==
    /\ run_pc = "recv_ready"
    /\ start_tasks

\* run() (client.py 79-217): `ready = await ws.recv()` returns the server's
\* first message, whatever it is, and the client starts its tasks
run_recv_ready ==
    /\ run_pc = "recv_ready"
    /\ ws_out # <<>>
    /\ start_tasks

\* the socket carries the client's next message to the server: the message
\* `await ws.send(...)` wrote (client.py 102) is what ws.receive() will return
\* (main.py 209)
socket_deliver ==
    /\ ~peer_gone
    /\ Len(rx_log) + Len(inbox) < Len(c_out)
    /\ LET m == c_out[Len(rx_log) + Len(inbox) + 1]
       IN  inbox' = Append(inbox, IF m.kind = "binary"
                                  THEN [kind |-> "bytes", text |-> "",
                                        bytes |-> m.frame]
                                  ELSE [kind |-> "text", text |-> m.text,
                                        bytes |-> <<>>])
    /\ UNCHANGED <<nvars, cvars, tvars>>
    /\ UNCHANGED <<API_KEY, hdr_key, qry_key, normalize_flag, fault, s_pc,
                   push_stream, sink, recognizer, queues, tasks, pump_task,
                   ws_out, ws_state, peer_gone, rx_log, emitted>>

\* sd_callback (client.py 89-94): the device delivers a block of `len` bytes
sd_callback(len, bound) ==
    /\ stream = "open"
    /\ ncap < bound
    /\ LET block == Range(nbytes + 1, nbytes + len)
       IN  /\ audio_q' = put_nowait(audio_q, block)
           /\ audio_dropped' = IF Len(audio_q) < maxsize THEN audio_dropped
                               ELSE audio_dropped + 1
    /\ ncap' = ncap + 1
    /\ nbytes' = nbytes + len
    /\ UNCHANGED <<mode, send_q, stream, state, stop_recording_evt, leftover,
                   proc_task, send_task, recv_task, key_task, run_pc,
                   server_gone, c_out, glog, finals, nkeys>>
    /\ UNCHANGED <<nvars, svars, tvars>>

\* the Gate's view while it walks one buffer
GateOf(st, evt, sq, log) == [state |-> st, evt |-> evt, send_q |-> sq, glog |-> log]

\* keyword_index with a detector error taken for a detection
keyword_index_error_wakes(outcome) == IF outcome \in {"keyword", "error"} THEN 0 ELSE -1

\* keyword_index after `try: porcupine.process(frame) except: -1`
keyword_index(outcome) == IF outcome = "keyword" THEN 0 ELSE -1

\* called: the detector was run on the frame; kw: its keyword_index
LogEntry(frame, st, called, kw, offered, accepted) ==
    [frame |-> frame, st |-> st, called |-> called, kw |-> kw,
     offered |-> offered, accepted |-> accepted, finals |-> finals,
     stream |-> stream]

\* gate_frame without the `continue` after a wake detection
gate_frame_no_continue(g, frame, outcome) ==
    LET called == g.state = "idle" /\ mode = "wake"
        kw     == IF called THEN keyword_index(outcome) ELSE -1
        woke   == called /\ kw >= 0
        st1    == IF woke THEN "recording" ELSE g.state
        evt1   == IF woke THEN FALSE ELSE g.evt
    IN  IF st1 = "recording"
        THEN GateOf(IF evt1 THEN "idle" ELSE "recording", evt1,
                    put_nowait(g.send_q, frame),
                    Append(g.glog, LogEntry(frame, g.state, called, kw, TRUE,
                                            Len(g.send_q) < maxsize)))
        ELSE GateOf(st1, evt1, g.send_q,
                    Append(g.glog, LogEntry(frame, g.state, called, kw,
                                            FALSE, FALSE)))

\* gate_frame never leaving Recording on the end-of-utterance event
gate_frame_ignore_evt(g, frame, outcome) ==
    LET called == g.state = "idle" /\ mode = "wake"
        kw     == IF called THEN keyword_index(outcome) ELSE -1
    IN  IF called /\ kw >= 0
        THEN GateOf("recording", FALSE, g.send_q,
                    Append(g.glog, LogEntry(frame, g.state, called, kw,
                                            FALSE, FALSE)))
        ELSE IF g.state = "recording"
        THEN GateOf("recording", g.evt, put_nowait(g.send_q, frame),
                    Append(g.glog, LogEntry(frame, g.state, called, kw, TRUE,
                                            Len(g.send_q) < maxsize)))
        ELSE GateOf(g.state, g.evt, g.send_q,
                    Append(g.glog, LogEntry(frame, g.state, called, kw,
                                            FALSE, FALSE)))

\* one frame through the Gate (client.py 158-187, client_speech.py 130-142);
\* outcome is what the detector does if it is run on this frame
\* gate_frame leaving Recording after one offered frame
gate_frame_one_shot(g, frame, outcome) ==
    LET called == g.state = "idle" /\ mode = "wake"
        kw     == IF called THEN keyword_index(outcome) ELSE -1
    IN  IF called /\ kw >= 0
        THEN GateOf("recording", FALSE, g.send_q,
                    Append(g.glog, LogEntry(frame, g.state, called, kw,
                                            FALSE, FALSE)))
        ELSE IF g.state = "recording"
        THEN GateOf("idle", g.evt,
                    put_nowait(g.send_q, frame),
                    Append(g.glog, LogEntry(frame, g.state, called, kw, TRUE,
                                            Len(g.send_q) < maxsize)))
        ELSE GateOf(g.state, g.evt, g.send_q,
                    Append(g.glog, LogEntry(frame, g.state, called, kw,
                                            FALSE, FALSE)))

\* gate_frame going Idle on the signal only when the frame was accepted
gate_frame_idle_needs_room(g, frame, outcome) ==
    LET called == g.state = "idle" /\ mode = "wake"
        kw     == IF called THEN keyword_index(outcome) ELSE -1
    IN  IF called /\ kw >= 0
        THEN GateOf("recording", FALSE, g.send_q,
                    Append(g.glog, LogEntry(frame, g.state, called, kw,
                                            FALSE, FALSE)))
        ELSE IF g.state = "recording"
        THEN GateOf(IF g.evt /\ Len(g.send_q) < maxsize
                    THEN "idle" ELSE "recording", g.evt,
                    put_nowait(g.send_q, frame),
                    Append(g.glog, LogEntry(frame, g.state, called, kw, TRUE,
                                            Len(g.send_q) < maxsize)))
        ELSE GateOf(g.state, g.evt, g.send_q,
                    Append(g.glog, LogEntry(frame, g.state, called, kw,
                                            FALSE, FALSE)))

\* gate_frame without stop_recording_evt.clear() at the wake detection
gate_frame_wake_keeps_evt(g, frame, outcome) ==
    LET called == g.state = "idle" /\ mode = "wake"
        kw     == IF called THEN keyword_index(outcome) ELSE -1
    IN  IF called /\ kw >= 0
        THEN GateOf("recording", g.evt, g.send_q,
                    Append(g.glog, LogEntry(frame, g.state, called, kw,
                                            FALSE, FALSE)))
        ELSE IF g.state = "recording"
        THEN GateOf(IF g.evt THEN "idle" ELSE "recording", g.evt,
                    put_nowait(g.send_q, frame),
                    Append(g.glog, LogEntry(frame, g.state, called, kw, TRUE,
                                            Len(g.send_q) < maxsize)))
        ELSE GateOf(g.state, g.evt, g.send_q,
                    Append(g.glog, LogEntry(frame, g.state, called, kw,
                                            FALSE, FALSE)))

gate_frame(g, frame, outcome) ==
    LET called == g.state = "idle" /\ mode = "wake"
        kw     == IF called THEN keyword_index(outcome) ELSE -1
    IN  IF called /\ kw >= 0
        THEN GateOf("recording", FALSE, g.send_q,
                    Append(g.glog, LogEntry(frame, g.state, called, kw,
                                            FALSE, FALSE)))
        ELSE IF g.state = "recording"
        THEN GateOf(IF g.evt THEN "idle" ELSE "recording", g.evt,
                    put_nowait(g.send_q, frame),
                    Append(g.glog, LogEntry(frame, g.state, called, kw, TRUE,
                                            Len(g.send_q) < maxsize)))
        ELSE GateOf(g.state, g.evt, g.send_q,
                    Append(g.glog, LogEntry(frame, g.state, called, kw,
                                            FALSE, FALSE)))

\* the inner while loop over buf (client.py 157-187): frame number i onward
RECURSIVE gate_frames(_, _, _, _)
gate_frames(g, buf, kws, i) ==
    IF i * bytes_per_frame <= Len(buf)
    THEN gate_frames(
            gate_frame(g, SubSeq(buf, (i - 1) * bytes_per_frame + 1,
                                 i * bytes_per_frame), kws[i]),
            buf, kws, i + 1)
    ELSE g

\* processor_task dropping the bytes short of a frame at the end of a buffer
processor_task_no_carry ==
    /\ proc_task = "running"
    /\ audio_q # <<>>
    /\ audio_q' = Tail(audio_q)
    /\ IF Head(audio_q) = None
       THEN /\ proc_task' = "done"
            /\ UNCHANGED <<state, stop_recording_evt, send_q, glog, leftover>>
       ELSE LET buf == leftover \o Head(audio_q)
                n   == Len(buf) \div bytes_per_frame
            IN  \E kws \in [1..n -> DetectorOutcomes] :
                    LET g == gate_frames(
                                GateOf(state, stop_recording_evt, send_q, glog),
                                buf, kws, 1)
                    IN  /\ state' = g.state
                        /\ stop_recording_evt' = g.evt
                        /\ send_q' = g.send_q
                        /\ glog' = g.glog
                        /\ leftover' = <<>>
                        /\ proc_task' = proc_task
    /\ UNCHANGED <<mode, stream, send_task, recv_task, key_task, run_pc,
                   server_gone, c_out, ncap, nbytes, audio_dropped, finals, nkeys>>
    /\ UNCHANGED <<nvars, svars, tvars>>

\* processor_task (client.py 146-188): one turn of the outer loop
processor_task ==
    /\ proc_task = "running"
    /\ audio_q # <<>>
    /\ audio_q' = Tail(audio_q)
    /\ IF Head(audio_q) = None
       THEN /\ proc_task' = "done"
            /\ UNCHANGED <<state, stop_recording_evt, send_q, glog, leftover>>
       ELSE LET buf == leftover \o Head(audio_q)
                n   == Len(buf) \div bytes_per_frame
            IN  \E kws \in [1..n -> DetectorOutcomes] :
                    LET g == gate_frames(
                                GateOf(state, stop_recording_evt, send_q, glog),
                                buf, kws, 1)
                    IN  /\ state' = g.state
                        /\ stop_recording_evt' = g.evt
                        /\ send_q' = g.send_q
                        /\ glog' = g.glog
                        /\ leftover' = SubSeq(buf, n * bytes_per_frame + 1, Len(buf))
                        /\ proc_task' = proc_task
    /\ UNCHANGED <<mode, stream, send_task, recv_task, key_task, run_pc,
                   server_gone, c_out, ncap, nbytes, audio_dropped, finals, nkeys>>
    /\ UNCHANGED <<nvars, svars, tvars>>

\* processor_task, the detector's outcome on each frame being recorded (for a
\* frame handled while Recording: the outcome it would have had)
processor_logged ==
    /\ proc_task = "running"
    /\ audio_q # <<>>
    /\ audio_q' = Tail(audio_q)
    /\ IF Head(audio_q) = None
       THEN /\ proc_task' = "done"
            /\ UNCHANGED <<state, stop_recording_evt, send_q, glog, leftover, det>>
       ELSE LET buf == leftover \o Head(audio_q)
                n   == Len(buf) \div bytes_per_frame
            IN  \E kws \in [1..n -> DetectorOutcomes] :
                    LET g == gate_frames(
                                GateOf(state, stop_recording_evt, send_q, glog),
                                buf, kws, 1)
                    IN  /\ state' = g.state
                        /\ stop_recording_evt' = g.evt
                        /\ send_q' = g.send_q
                        /\ glog' = g.glog
                        /\ leftover' = SubSeq(buf, n * bytes_per_frame + 1, Len(buf))
                        /\ proc_task' = proc_task
                        /\ det' = det \o kws
    /\ UNCHANGED <<mode, stream, send_task, recv_task, key_task, run_pc,
                   server_gone, c_out, ncap, nbytes, audio_dropped, finals, nkeys>>
    /\ UNCHANGED <<nvars, svars, stop_pc, stop_calls, last_msg>>

OutMsg(by, kind, frame, text) ==
    [by |-> by, kind |-> kind, frame |-> frame, text |-> text]

\* sender_get taking the newest item of the send queue
sender_get_newest ==
    /\ send_task.pc = "get"
    /\ send_q # <<>>
    /\ send_q' = SubSeq(send_q, 1, Len(send_q) - 1)
    /\ send_task' = IF send_q[Len(send_q)] = None
                    THEN [pc |-> "done", chunk |-> <<>>]
                    ELSE [pc |-> "send", chunk |-> send_q[Len(send_q)]]
    /\ UNCHANGED <<mode, audio_q, stream, state, stop_recording_evt, leftover,
                   proc_task, recv_task, key_task, run_pc, server_gone, c_out,
                   ncap, nbytes, audio_dropped, glog, finals, nkeys>>
    /\ UNCHANGED <<nvars, svars, tvars>>

\* sender_task (client.py 96-104): `chunk = await send_q.get()`
sender_get ==
    /\ send_task.pc = "get"
    /\ send_q # <<>>
    /\ send_q' = Tail(send_q)
    /\ send_task' = IF Head(send_q) = None
                    THEN [pc |-> "done", chunk |-> <<>>]
                    ELSE [pc |-> "send", chunk |-> Head(send_q)]
    /\ UNCHANGED <<mode, audio_q, stream, state, stop_recording_evt, leftover,
                   proc_task, recv_task, key_task, run_pc, server_gone, c_out,
                   ncap, nbytes, audio_dropped, glog, finals, nkeys>>
    /\ UNCHANGED <<nvars, svars, tvars>>

\* sender_task: `await ws.send(chunk)`; an exception is printed and ends the task
sender_send ==
    /\ send_task.pc = "send"
    /\ IF server_gone
       THEN /\ send_task' = [pc |-> "failed", chunk |-> send_task.chunk]
            /\ c_out' = c_out
       ELSE /\ send_task' = [pc |-> "get", chunk |-> <<>>]
            /\ c_out' = Append(c_out, OutMsg("sender_task", "binary",
                                             send_task.chunk, ""))
    /\ UNCHANGED <<mode, audio_q, send_q, stream, state, stop_recording_evt,
                   leftover, proc_task, recv_task, key_task, run_pc,
                   server_gone, ncap, nbytes, audio_dropped, glog, finals, nkeys>>
    /\ UNCHANGED <<nvars, svars, tvars>>

\* messages outside the protocol: a binary message, text that is not JSON,
\* JSON that is not an object, an object of unknown type, a final without text
\* whose raw is an object, and messages whose fields have unexpected types
OtherMsgKinds ==
    {"binary", "not_json", "json_not_object", "unknown_type", "final_raw_object",
     "final_raw_not_object", "final_text_not_string", "partial_text_not_string"}

ListenerMsgKinds == ServerMsgKinds \cup OtherMsgKinds

\* what the body of receiver_task's loop (client.py 124-142) does with one
\* message: "final" (print_final runs and sets the event), "raise" (an
\* exception leaves the loop: raw.get on a non-object at line 133, text[:160]
\* or "[final]  " + text on a non-string at lines 107 and 112) or "ignore"
listener_effect(kind) ==
    IF kind \in {"final", "final_raw_object"} THEN "final"
    ELSE IF kind \in {"final_raw_not_object", "final_text_not_string",
                      "partial_text_not_string"} THEN "raise"
    ELSE "ignore"

\* receiver_task (client.py 120-144) reading one message; an exception in the
\* loop is caught outside it (line 143) and ends the task
listener_step(kind) ==
    /\ recv_task = "running"
    /\ ~server_gone
    /\ listener_effect(kind) = "final" => finals < MaxFinals
    /\ stop_recording_evt' = IF listener_effect(kind) = "final" THEN TRUE
                             ELSE stop_recording_evt
    /\ finals' = IF listener_effect(kind) = "final" THEN finals + 1 ELSE finals
    /\ recv_task' = IF listener_effect(kind) = "raise" THEN "stopped" ELSE recv_task
    /\ UNCHANGED <<mode, audio_q, send_q, stream, state, leftover, proc_task,
                   send_task, key_task, run_pc, server_gone, c_out,
                   ncap, nbytes, audio_dropped, glog, nkeys>>
    /\ UNCHANGED <<nvars, svars>>

receiver_task(kind) == listener_step(kind) /\ UNCHANGED tvars

\* receiver_task, the kind of the message it read being recorded
receiver_logged(kind) ==
    /\ listener_step(kind)
    /\ last_msg' = kind
    /\ UNCHANGED <<stop_pc, stop_calls, det>>

\* receiver_task: ws.recv() raises once the server is gone
receiver_stopped ==
    /\ recv_task = "running"
    /\ server_gone
    /\ recv_task' = "stopped"
    /\ UNCHANGED <<mode, audio_q, send_q, stream, state, stop_recording_evt,
                   leftover, proc_task, send_task, key_task, run_pc,
                   server_gone, c_out, ncap, nbytes, audio_dropped, glog,
                   finals, nkeys>>
    /\ UNCHANGED <<nvars, svars, tvars>>

\* the connection to the server breaks
server_lost ==
    /\ ~server_gone
    /\ run_pc # "closed"
    /\ server_gone' = TRUE
    /\ UNCHANGED <<mode, audio_q, send_q, stream, state, stop_recording_evt,
                   leftover, proc_task, send_task, recv_task, key_task, run_pc,
                   c_out, ncap, nbytes, audio_dropped, glog, finals, nkeys>>
    /\ UNCHANGED <<nvars, svars, tvars>>

\* key Q: stop_stream (client.py 197-204) up to its `await ws.send`
key_quit(bound) ==
    /\ key_task = "wait"
    /\ nkeys < bound
    /\ nkeys' = nkeys + 1
    /\ stream' = "none"
    /\ state' = "idle"
    /\ key_task' = "q_send"
    /\ UNCHANGED <<mode, audio_q, send_q, stop_recording_evt, leftover,
                   proc_task, send_task, recv_task, run_pc, server_gone, c_out,
                   ncap, nbytes, audio_dropped, glog, finals>>
    /\ UNCHANGED <<nvars, svars, tvars>>

StopMsg == OutMsg("key_listener", "text", <<>>, STOP_TEXT)

\* key Q: the stop event is written (or the write raises and is swallowed),
\* stop_stream returns and the key listener leaves its loop
key_quit_sent ==
    /\ key_task = "q_send"
    /\ c_out' = IF server_gone THEN c_out ELSE Append(c_out, StopMsg)
    /\ key_task' = "done"
    /\ UNCHANGED <<mode, audio_q, send_q, stream, state, stop_recording_evt,
                   leftover, proc_task, send_task, recv_task, run_pc,
                   server_gone, ncap, nbytes, audio_dropped, glog, finals, nkeys>>
    /\ UNCHANGED <<nvars, svars, tvars>>

\* key X: the key listener starts `await ws.send(json.dumps({"event": "stop"}))`
key_cancel(bound) ==
    /\ key_task = "wait"
    /\ nkeys < bound
    /\ nkeys' = nkeys + 1
    /\ key_task' = "x_send"
    /\ UNCHANGED <<mode, audio_q, send_q, stream, state, stop_recording_evt,
                   leftover, proc_task, send_task, recv_task, run_pc,
                   server_gone, c_out, ncap, nbytes, audio_dropped, glog, finals>>
    /\ UNCHANGED <<nvars, svars, tvars>>

\* key X: the stop event is written (or the write raises and is swallowed);
\* client_speech.py then sets state = "idle" and the end-of-utterance event
key_cancel_sent ==
    /\ key_task = "x_send"
    /\ c_out' = IF server_gone THEN c_out ELSE Append(c_out, StopMsg)
    /\ key_task' = "wait"
    /\ IF mode = "speech"
       THEN state' = "idle" /\ stop_recording_evt' = TRUE
       ELSE UNCHANGED <<state, stop_recording_evt>>
    /\ UNCHANGED <<mode, audio_q, send_q, stream, leftover, proc_task,
                   send_task, recv_task, run_pc, server_gone, ncap, nbytes,
                   audio_dropped, glog, finals, nkeys>>
    /\ UNCHANGED <<nvars, svars, tvars>>

\* key_start with a start key that ends a recording under way
key_start_toggle(bound) ==
    /\ mode = "speech"
    /\ key_task = "wait"
    /\ nkeys < bound
    /\ nkeys' = nkeys + 1
    /\ IF state = "idle"
       THEN state' = "recording" /\ stop_recording_evt' = FALSE
       ELSE state' = "idle" /\ stop_recording_evt' = stop_recording_evt
    /\ UNCHANGED <<mode, audio_q, send_q, stream, leftover, proc_task,
                   send_task, recv_task, key_task, run_pc, server_gone, c_out,
                   ncap, nbytes, audio_dropped, glog, finals>>
    /\ UNCHANGED <<nvars, svars, tvars>>

\* the start key of client_speech.py (195-200, 220-225)
key_start(bound) ==
    /\ mode = "speech"
    /\ key_task = "wait"
    /\ nkeys < bound
    /\ nkeys' = nkeys + 1
    /\ IF state = "idle"
       THEN state' = "recording" /\ stop_recording_evt' = FALSE
       ELSE UNCHANGED <<state, stop_recording_evt>>
    /\ UNCHANGED <<mode, audio_q, send_q, stream, leftover, proc_task,
                   send_task, recv_task, key_task, run_pc, server_gone, c_out,
                   ncap, nbytes, audio_dropped, glog, finals>>
    /\ UNCHANGED <<nvars, svars, tvars>>

\* run()'s finally (client.py 262-268): the two sentinels, in one try, then
\* `await asyncio.sleep(0)`
run_finally ==
    /\ run_pc = "await_key"
    /\ key_task = "done"
    /\ audio_q' = put_nowait(audio_q, None)
    /\ send_q' = IF Len(audio_q) < maxsize THEN put_nowait(send_q, None) ELSE send_q
    /\ run_pc' = "sleep"
    /\ UNCHANGED <<mode, stream, state, stop_recording_evt, leftover, proc_task,
                   send_task, recv_task, key_task, server_gone, c_out, ncap,
                   nbytes, audio_dropped, glog, finals, nkeys>>
    /\ UNCHANGED <<nvars, svars, tvars>>

\* run() (client.py 269-274): the three tasks are cancelled, the socket closed
run_close ==
    /\ run_pc = "sleep"
    /\ proc_task' = IF proc_task = "running" THEN "cancelled" ELSE proc_task
    /\ send_task' = IF send_task.pc \in {"get", "send"}
                    THEN [pc |-> "cancelled", chunk |-> send_task.chunk]
                    ELSE send_task
    /\ recv_task' = IF recv_task = "running" THEN "cancelled" ELSE recv_task
    /\ run_pc' = "closed"
    /\ UNCHANGED <<mode, audio_q, send_q, stream, state, stop_recording_evt,
                   leftover, key_task, server_gone, c_out, ncap, nbytes,
                   audio_dropped, glog, finals, nkeys>>
    /\ UNCHANGED <<nvars, svars, tvars>>

\* consecutive calls of stop_stream in SpecStop
StopCalls == 2

\* no call of stop_stream is under way
StopIdle == stop_pc = "idle" /\ stop_calls = 0

\* the Listener has read no message yet
NothingRead == last_msg = "none"

\* the Gate has handed no frame to the detector yet
NothingDetected == det = <<>>

\* the frames a client has sent before stop_stream is called
SentBefore ==
    {<<>>, <<OutMsg("sender_task", "binary", Range(1, bytes_per_frame), "")>>}

\* a client at the moment stop_stream may be called: the stream is open, the
\* key listener waits, and the Gate, the end-of-utterance event and the
\* connection are in any of their states
StopInit ==
    /\ mode \in {"wake", "speech"}
    /\ audio_q = <<>>
    /\ send_q = <<>>
    /\ stream = "open"
    /\ state \in {"idle", "recording"}
    /\ stop_recording_evt \in BOOLEAN
    /\ leftover = <<>>
    /\ proc_task = "running"
    /\ send_task = [pc |-> "get", chunk |-> <<>>]
    /\ recv_task = "running"
    /\ key_task = "wait"
    /\ run_pc = "await_key"
    /\ server_gone \in BOOLEAN
    /\ c_out \in SentBefore
    /\ ncap = 0
    /\ nbytes = 0
    /\ audio_dropped = 0
    /\ glog = <<>>
    /\ finals = 0
    /\ nkeys = 0
    /\ StopIdle /\ NothingRead /\ NothingDetected

\* stop_stream (client.py 197-209, client_speech.py 152-164) up to its
\* `await ws.send`, or to its return when send_stop_event is false
stop_stream(send_stop_event) ==
    /\ stop_pc = "idle"
    /\ stop_calls < StopCalls
    /\ stop_calls' = stop_calls + 1
    /\ stream' = "none"
    /\ state' = "idle"
    /\ stop_pc' = IF send_stop_event THEN "send" ELSE "idle"
    /\ UNCHANGED <<last_msg, det>>
    /\ UNCHANGED <<mode, audio_q, send_q, stop_recording_evt, leftover,
                   proc_task, send_task, recv_task, key_task, run_pc,
                   server_gone, c_out, ncap, nbytes, audio_dropped, glog,
                   finals, nkeys>>
    /\ UNCHANGED <<nvars, svars>>

\* stop_stream's `await ws.send(json.dumps({"event": "stop"}))`: the stop
\* event is written, or the write raises and is swallowed
stop_stream_sent ==
    /\ stop_pc = "send"
    /\ c_out' = IF server_gone THEN c_out ELSE Append(c_out, StopMsg)
    /\ stop_pc' = "idle"
    /\ UNCHANGED <<mode, audio_q, send_q, stream, state, stop_recording_evt,
                   leftover, proc_task, send_task, recv_task, key_task, run_pc,
                   server_gone, ncap, nbytes, audio_dropped, glog, finals,
                   nkeys, stop_calls, last_msg, det>>
    /\ UNCHANGED <<nvars, svars>>

\* consecutive calls of stop_stream, with either argument
StopNext ==
    \/ \E send_stop_event \in BOOLEAN : stop_stream(send_stop_event)
    \/ stop_stream_sent
    \/ server_lost

\* blocks the device delivers in SpecKeys
KeysCapture == 3

\* keys pressed in SpecKeys
KeysPressed == 2

\* a client whose user presses several keys
KeysNext ==
    \/ sd_callback(bytes_per_frame, KeysCapture)
    \/ processor_task
    \/ sender_get
    \/ sender_send
    \/ \E kind \in ServerMsgKinds : receiver_task(kind)
    \/ receiver_stopped
    \/ server_lost
    \/ key_quit(KeysPressed)
    \/ key_quit_sent
    \/ key_cancel(KeysPressed)
    \/ key_cancel_sent
    \/ key_start(KeysPressed)
    \/ run_finally
    \/ run_close

\* blocks the device delivers in SpecQuiet
QuietCapture == 3

\* engine events in SpecQuiet
QuietEvents == 1

\* client messages the server receives in SpecQuiet
QuietInbound == 1

\* an engine that hears speech and never fires recognized: it fires
\* recognizing (main.py 116-122)
QuietEventKinds == {"recognizing"}

\* what the Listener reads from a server whose engine never fires recognized
QuietMsgKinds == ServerMsgKinds \ {"final"}

ClientNext ==
    \/ sd_callback(bytes_per_frame, MaxCapture)
    \/ processor_task
    \/ sender_get
    \/ sender_send
    \/ \E kind \in ServerMsgKinds : receiver_task(kind)
    \/ receiver_stopped
    \/ server_lost
    \/ key_quit(MaxKeys)
    \/ key_quit_sent
    \/ key_cancel(MaxKeys)
    \/ key_cancel_sent
    \/ key_start(MaxKeys)
    \/ run_finally
    \/ run_close

\* the client with a server that may send anything
ListenerNext ==
    \/ sd_callback(bytes_per_frame, MaxCapture)
    \/ processor_task
    \/ sender_get
    \/ sender_send
    \/ \E kind \in ListenerMsgKinds : receiver_task(kind)
    \/ receiver_stopped
    \/ server_lost
    \/ key_quit(MaxKeys)
    \/ key_quit_sent
    \/ key_cancel(MaxKeys)
    \/ key_cancel_sent
    \/ key_start(MaxKeys)
    \/ run_finally
    \/ run_close

BurstNext ==
    \/ sd_callback(bytes_per_frame, MaxBurst)
    \/ processor_task
    \/ sender_get
    \/ sender_send

\* blocks the device delivers after the start of SpecDrop
DropCapture == 3

\* the frames 2..k+1 of the capture
MidFrames(k) ==
    [i \in 1..k |-> Range(i * bytes_per_frame + 1, (i + 1) * bytes_per_frame)]

\* the Gate's history after a wake detection on the first frame and k frames
\* offered to the send queue and accepted
MidLog(k) ==
    <<LogEntry(Range(1, bytes_per_frame), "idle", TRUE, 0, FALSE, FALSE)>>
        \o [i \in 1..k |->
               LogEntry(MidFrames(k)[i], "recording", FALSE, -1, TRUE, TRUE)]

\* the wake-word client in the middle of a run: it woke on the first frame
\* and the Gate has put the next k frames on the send queue, which the
\* Sender has not started to empty; the send queue is full or one short
DropInit ==
    /\ mode = "wake"
    /\ audio_q = <<>>
    /\ stream = "open"
    /\ state = "recording"
    /\ stop_recording_evt = FALSE
    /\ leftover = <<>>
    /\ proc_task = "running"
    /\ send_task = [pc |-> "get", chunk |-> <<>>]
    /\ recv_task = "running"
    /\ key_task = "wait"
    /\ run_pc = "await_key"
    /\ server_gone = FALSE
    /\ c_out = <<>>
    /\ audio_dropped = 0
    /\ finals = 0
    /\ nkeys = 0
    /\ \E k \in {maxsize - 1, maxsize} :
          /\ send_q = MidFrames(k)
          /\ ncap = k + 1
          /\ nbytes = (k + 1) * bytes_per_frame
          /\ glog = MidLog(k)

\* the client from DropInit on, with a server that sends final messages
DropNext ==
    \/ sd_callback(bytes_per_frame, maxsize + 1 + DropCapture)
    \/ processor_task
    \/ sender_get
    \/ sender_send
    \/ receiver_task("final")

\* blocks the device delivers in SpecSignal
SignalCapture == 2

\* the wake-word client with a server that may send any message
SignalNext ==
    \/ sd_callback(bytes_per_frame, SignalCapture)
    \/ processor_task
    \/ sender_get
    \/ sender_send
    \/ \E kind \in ListenerMsgKinds : receiver_logged(kind)
    \/ receiver_stopped
    \/ server_lost
    \/ key_quit(MaxKeys)
    \/ key_quit_sent
    \/ key_cancel(MaxKeys)
    \/ key_cancel_sent
    \/ run_finally
    \/ run_close

\* chunks the device delivers in SpecChunks
ChunkCapture == 3

\* the longest chunk, in bytes, in SpecChunks
MaxChunk == 5

\* a client whose capture queue receives chunks of any length
ChunkNext ==
    \/ \E len \in 0..MaxChunk : sd_callback(len, ChunkCapture)
    \/ processor_task
    \/ sender_get
    \/ sender_send
    \/ key_start(MaxKeys)

\* blocks the device delivers in SpecDetector
DetCapture == 3

\* the wake-word client with blocks of one or two frames and a server that
\* sends final messages
DetectorNext ==
    \/ \E k \in 1..2 : sd_callback(k * bytes_per_frame, DetCapture)
    \/ processor_logged
    \/ sender_get
    \/ sender_send
    \/ receiver_task("final")

ServerNext ==
    \/ authenticate
    \/ unauthorized_close
    \/ start_recognition
    \/ send_ready
    \/ \E ev \in EventKinds : engine_event(ev, MaxEvents)
    \/ \E t \in TaskNames : task_get(t)
    \/ \E t \in TaskNames : task_send(t)
    \/ \E m \in MuxInboundMsgs : client_send(m, MuxInbound)
    \/ client_disconnect
    \/ frame_router
    \/ stop_and_cancel
    \/ close_socket
    \/ handle_exception

RouterNext ==
    \/ authenticate
    \/ start_recognition
    \/ send_ready
    \/ \E ev \in RouterEventKinds : engine_event(ev, RouterEvents)
    \/ \E t \in TaskNames : task_get(t)
    \/ \E t \in TaskNames : task_send(t)
    \/ \E m \in InboundMsgs : client_send(m, MaxInbound)
    \/ client_disconnect
    \/ frame_router
    \/ stop_and_cancel
    \/ close_socket
    \/ handle_exception

\* a connection handler whose engine fires partial results faster than the
\* socket takes them
FloodNext ==
    \/ authenticate
    \/ start_recognition
    \/ send_ready
    \/ \E ev \in QuietEventKinds : engine_event(ev, FloodEvents)
    \/ \E t \in TaskNames : task_get(t)
    \/ \E t \in TaskNames : task_send(t)

\* a connection handler and a client that sends one frame and goes away, for
\* every combination of configured key, header and query parameter
AuthNext ==
    \/ authenticate
    \/ unauthorized_close
    \/ start_recognition
    \/ send_ready
    \/ \E m \in MuxInboundMsgs : client_send(m, MuxInbound)
    \/ client_disconnect
    \/ frame_router
    \/ stop_and_cancel
    \/ close_socket
    \/ handle_exception

\* a client from its connect on and the connection handler it talks to
HandshakeNext ==
    \/ run_recv_ready
    \/ sd_callback(bytes_per_frame, HandshakeCapture)
    \/ processor_task
    \/ sender_get
    \/ sender_send
    \/ key_start(MaxKeys)
    \/ socket_deliver
    \/ authenticate
    \/ unauthorized_close
    \/ start_recognition
    \/ send_ready
    \/ frame_router
    \/ handle_exception

\* a connection handler whose audio sink may refuse a write
FaultNext ==
    \/ authenticate
    \/ start_recognition
    \/ send_ready
    \/ \E ev \in QuietEventKinds : engine_event(ev, FaultEvents)
    \/ \E t \in TaskNames : task_get(t)
    \/ \E t \in TaskNames : task_send(t)
    \/ \E m \in MuxInboundMsgs : client_send(m, FaultInbound)
    \/ client_disconnect
    \/ frame_router
    \/ sink_write_raises
    \/ stop_and_cancel
    \/ close_socket
    \/ handle_exception

\* a client whose user presses no key but the start key, and a connection
\* handler whose engine never fires a recognized event
QuietNext ==
    \/ sd_callback(bytes_per_frame, QuietCapture)
    \/ processor_task
    \/ sender_get
    \/ sender_send
    \/ \E kind \in QuietMsgKinds : receiver_task(kind)
    \/ receiver_stopped
    \/ server_lost
    \/ key_start(MaxKeys)
    \/ authenticate
    \/ start_recognition
    \/ send_ready
    \/ \E ev \in QuietEventKinds : engine_event(ev, QuietEvents)
    \/ \E t \in TaskNames : task_get(t)
    \/ \E t \in TaskNames : task_send(t)
    \/ \E m \in MuxInboundMsgs : client_send(m, QuietInbound)
    \/ client_disconnect
    \/ frame_router
    \/ stop_and_cancel
    \/ close_socket
    \/ handle_exception

ServerInit ==
    ServerStart({"", "k"}, {""}, {"", "k", "x"}, {FALSE}, {"none", "config", "start"})

RouterInit == ServerStart({"k"}, {""}, {"k"}, BOOLEAN, {"none"})

InitNorm == NormInit /\ ServerIdle /\ ClientIdle /\ StopIdle /\ NothingRead /\ NothingDetected

InitServer == ServerInit /\ NormIdle /\ ClientIdle /\ StopIdle /\ NothingRead /\ NothingDetected

InitRouter == RouterInit /\ NormIdle /\ ClientIdle /\ StopIdle /\ NothingRead /\ NothingDetected

Init == ClientInit /\ NormIdle /\ ServerIdle /\ StopIdle /\ NothingRead /\ NothingDetected

InitBurst == ClientInit /\ mode = "wake" /\ NormIdle /\ ServerIdle /\ StopIdle /\ NothingRead /\ NothingDetected

InitQuiet ==
    /\ ClientInit
    /\ ServerStart({"k"}, {""}, {"k"}, {FALSE}, {"none"})
    /\ NormIdle
    /\ StopIdle /\ NothingRead /\ NothingDetected

InitStop == StopInit /\ NormIdle /\ ServerIdle

InitAuth ==
    /\ ServerStart({"", "k"}, {"", "k", "x"}, {"", "k", "x"}, {FALSE}, {"none"})
    /\ NormIdle
    /\ ClientIdle
    /\ StopIdle /\ NothingRead /\ NothingDetected

InitHandshake ==
    /\ ClientWaiting
    /\ ServerStart({"k"}, {""}, {"k", "x"}, {FALSE}, {"none", "start"})
    /\ NormIdle
    /\ StopIdle /\ NothingRead /\ NothingDetected

InitFault ==
    /\ ServerStart({"k"}, {""}, {"k"}, {FALSE}, {"none", "start"})
    /\ NormIdle
    /\ ClientIdle
    /\ StopIdle /\ NothingRead /\ NothingDetected

InitFlood ==
    /\ ServerStart({"k"}, {""}, {"k"}, {FALSE}, {"none"})
    /\ NormIdle
    /\ ClientIdle
    /\ StopIdle /\ NothingRead /\ NothingDetected

InitDrop == DropInit /\ NormIdle /\ ServerIdle /\ StopIdle /\ NothingRead /\ NothingDetected

InitSignal == ClientInit /\ mode = "wake" /\ NormIdle /\ ServerIdle /\ StopIdle /\ NothingRead /\ NothingDetected

SpecNorm == InitNorm /\ [][NormNext]_vars

SpecServer == InitServer /\ [][ServerNext]_vars

SpecRouter == InitRouter /\ [][RouterNext]_vars

Spec == Init /\ [][ClientNext]_vars

SpecBurst == InitBurst /\ [][BurstNext]_vars

SpecListener == Init /\ [][ListenerNext]_vars

SpecQuiet == InitQuiet /\ [][QuietNext]_vars

SpecStop == InitStop /\ [][StopNext]_vars

SpecKeys == Init /\ [][KeysNext]_vars

SpecDrop == InitDrop /\ [][DropNext]_vars

SpecSignal == InitSignal /\ [][SignalNext]_vars

SpecChunks == Init /\ [][ChunkNext]_vars

SpecDetector == InitBurst /\ [][DetectorNext]_vars

SpecFlood == InitFlood /\ [][FloodNext]_vars

SpecFault == InitFault /\ [][FaultNext]_vars

SpecAuth == InitAuth /\ [][AuthNext]_vars

SpecHandshake == InitHandshake /\ [][HandshakeNext]_vars

(***************************************************************************)
(* Claims about the server                                                 *)
(***************************************************************************)
Indices(seq) == 1..Len(seq)

\* the outbound message class of an engine event: its type and event tag
OutClass(ev) ==
    CASE ev = "recognizing"     -> <<"partial", "text">>
      [] ev = "recognized"      -> <<"final", "text">>
      [] ev = "canceled_error"  -> <<"error", "canceled">>
      [] ev = "canceled_eos"    -> <<"session", "stopped">>
      [] ev = "session_started" -> <<"session", "started">>
      [] ev = "session_stopped" -> <<"session", "stopped">>

\* message i of ws_out is the message of engine event number n
SentAt(i, n) ==
    /\ ws_out[i].src = n
    /\ <<ws_out[i].type, ws_out[i].arg>> = OutClass(emitted[n].ev)

\* C2: within one class of engine events (recognizing -> partial, recognized ->
\* final, canceled with an error -> error, session-started, and session-stopped
\* with the cancellations that are no error -> session stopped), the messages
\* are written in the order the engine fired the events: when the message of
\* event B has been written, the message of every earlier event A of B's class
\* was written before it.
C2_PerClassOrder ==
    \A j \in Indices(ws_out) :
        ws_out[j].src > 0 =>
            \A a \in 1..(ws_out[j].src - 1) :
                OutClass(emitted[a].ev) = OutClass(emitted[ws_out[j].src].ev)
                    => \E i \in 1..(j - 1) : SentAt(i, a)

\* two recognized events, both fired before either was forwarded, have both
\* been written as final messages
C2_Witness ==
    /\ Len(emitted) = 2
    /\ emitted[1].at = "ready" /\ emitted[2].at = "ready"
    /\ \E i, j \in Indices(ws_out) :
          /\ i < j
          /\ ws_out[i].type = "final" /\ ws_out[i].src = 1
          /\ ws_out[j].type = "final" /\ ws_out[j].src = 2

\* event number n waits in queue q, or is held by the running task t, or was
\* held by t when its write failed or the connection was torn down
Pending(n, q, t) ==
    \/ \E i \in Indices(queues[q]) : queues[q][i].id = n
    \/ tasks[t].item.id = n

\* C3: a canceled event whose reason is Error is never sent as a session
\* message and is either pending for process_canceled or sent as an error
\* message; a canceled event with another reason is never sent as an error
\* message and is either pending for process_session_stop or sent as
\* session/stopped.
C3_CanceledTranslation ==
    \A n \in Indices(emitted) :
        /\ emitted[n].ev = "canceled_error" =>
              /\ \A i \in Indices(ws_out) :
                    ws_out[i].src = n => ws_out[i].type = "error"
              /\ \/ Pending(n, "canceled_q", "process_canceled")
                 \/ \E i \in Indices(ws_out) :
                       ws_out[i].src = n /\ ws_out[i].type = "error"
        /\ emitted[n].ev = "canceled_eos" =>
              /\ \A i \in Indices(ws_out) :
                    ws_out[i].src = n =>
                        ws_out[i].type = "session" /\ ws_out[i].arg = "stopped"
              /\ \/ Pending(n, "session_stopped_q", "process_session_stop")
                 \/ \E i \in Indices(ws_out) :
                       /\ ws_out[i].src = n
                       /\ ws_out[i].type = "session" /\ ws_out[i].arg = "stopped"

\* a cancellation with an error and one without have both been forwarded
C3_Witness ==
    \E i, j \in Indices(ws_out) :
        /\ ws_out[i].src > 0 /\ ws_out[j].src > 0
        /\ emitted[ws_out[i].src].ev = "canceled_error" /\ ws_out[i].type = "error"
        /\ emitted[ws_out[j].src].ev = "canceled_eos" /\ ws_out[j].type = "session"

ReadyCount == Cardinality({i \in Indices(ws_out) : ws_out[i].type = "ready"})

\* C4: once the recognition session has started, `ready` is the first message
\* the server writes and is written at most once, exactly once when the handler
\* has passed the send; an engine event fired before the send waits in its
\* queue until then and is afterwards pending or sent, behind `ready`.
C4_ReadyOnceAndFirst ==
    recognizer \in {"running", "stopped"} =>
        /\ ReadyCount <= 1
        /\ ws_out # <<>> => ws_out[1].type = "ready"
        /\ s_pc \in {"loop", "stop", "close"} => ReadyCount = 1
        /\ s_pc = "ready" =>
              \A n \in Indices(emitted) :
                  \E i \in Indices(queues[handler_queue(emitted[n].ev)]) :
                      queues[handler_queue(emitted[n].ev)][i].id = n
        /\ \A n \in Indices(emitted) :
              \/ \E q \in QueueNames, t \in TaskNames : Pending(n, q, t)
              \/ \E i \in 2..Len(ws_out) : ws_out[i].src = n

\* an event fired between the start of recognition and `ready` was sent right
\* after `ready`
C4_Witness ==
    /\ Len(ws_out) >= 2
    /\ ws_out[1].type = "ready"
    /\ ws_out[2].src > 0
    /\ emitted[ws_out[2].src].at = "ready"
    /\ ws_out[2].type = "session"

\* the presented credential is missing or is not the server's key
BadCredential == x_api_key = "" \/ x_api_key # API_KEY

UnauthorizedMsg == Msg("error", "unauthorized", 0)

\* C5: on a connection whose credential is missing or differs from the
\* server's key the server writes nothing but one error/unauthorized message,
\* closes only after it and only with code 4401, has done both when the
\* handler ends with the peer still there, never creates the audio sink or the
\* recognizer, never starts a fan-in task and never reads an inbound message.
C5_UnauthorizedRejected ==
    BadCredential =>
        /\ ws_out \in {<<>>, <<UnauthorizedMsg>>}
        /\ ws_state.state = "closed" =>
              ws_state.code = CLOSE_UNAUTHORIZED /\ ws_out = <<UnauthorizedMsg>>
        /\ (s_pc = "done" /\ ~peer_gone) =>
              ws_state.state = "closed" /\ ws_out = <<UnauthorizedMsg>>
        /\ push_stream = "none"
        /\ recognizer = "none"
        /\ pump_task = "none"
        /\ rx_log = <<>>
        /\ sink = <<>>

\* a connection with a wrong credential was rejected and closed while a frame
\* the client had sent was left unread
C5_Witness ==
    /\ qry_key = "x"
    /\ s_pc = "done"
    /\ ws_out = <<UnauthorizedMsg>>
    /\ ws_state = [state |-> "closed", code |-> CLOSE_UNAUTHORIZED]
    /\ inbox # <<>>

IsStop(m) == m.kind = "text" /\ m.text = STOP_TEXT

StopsReceived == Cardinality({i \in Indices(rx_log) : IsStop(rx_log[i])})

StopAcks ==
    Cardinality({i \in Indices(ws_out) :
                    ws_out[i].type = "info" /\ ws_out[i].arg = "stop_ack"})

FramesReceived ==
    Cardinality({i \in Indices(rx_log) :
                    rx_log[i].kind = "bytes" /\ rx_log[i].bytes # <<>>})

Disconnected == \E i \in Indices(rx_log) : rx_log[i].kind = "disconnect"

\* C6: the server writes one stop_ack per stop event received (none it did not
\* receive, and every one while the peer is there); receiving stop events
\* leaves the router in its loop, the socket and the audio sink open, the
\* recognizer running and (while the peer is there) the five fan-in tasks
\* running, until a disconnect is received; every non-empty binary payload
\* received, before or after a stop, has been written to the sink.
C6_StopAcknowledgedSessionKept ==
    /\ StopAcks <= StopsReceived
    /\ ~peer_gone => StopAcks = StopsReceived
    /\ Len(sink) = FramesReceived
    /\ (StopsReceived > 0 /\ ~Disconnected) =>
          /\ s_pc = "loop"
          /\ ws_state.state = "open"
          /\ push_stream = "open"
          /\ recognizer = "running"
          /\ ~peer_gone =>
                /\ pump_task = "running"
                /\ \A t \in TaskNames : tasks[t].pc \in {"get", "send"}

\* after a stop was acknowledged, a frame was pushed to the sink and an engine
\* event was forwarded
C6_Witness ==
    /\ Len(rx_log) = 2
    /\ IsStop(rx_log[1])
    /\ rx_log[2].kind = "bytes"
    /\ Len(sink) = 1
    /\ Len(ws_out) = 3
    /\ ws_out[2].type = "info"
    /\ ws_out[3].type = "final"
    /\ ~peer_gone

(***************************************************************************)
(* Claims about the gain normalization                                     *)
(***************************************************************************)
\* the peak absolute magnitude of a frame of samples
TruePeak(arr) == SeqMax([i \in 1..Len(arr) |-> Abs(arr[i])])

NormDecoded == n_done /\ n_flag /\ Len(n_in) % 2 = 0

\* C8: with normalization enabled, every frame of 16-bit samples whose peak
\* absolute magnitude is at least 30000 (frames holding -32768 included) is
\* pushed to the sink byte for byte as received.
C8_PeakAtTargetUnchanged ==
    (NormDecoded /\ TruePeak(frombuffer(n_in)) >= TARGET_PEAK) => n_out = n_in

\* C9 as stated: a frame of peak p, 0 < p < 30000, is pushed with peak exactly
\* min(30000, 3*p), every sample inside the 16-bit range.
C9_PeakIsMinOfTargetAndTriple ==
    LET p == TruePeak(frombuffer(n_in))
    IN  (NormDecoded /\ 0 < p /\ p < TARGET_PEAK) =>
            /\ Len(n_out) = Len(n_in)
            /\ TruePeak(frombuffer(n_out)) = Min2(TARGET_PEAK, MAX_GAIN * p)

\* C9 as amended: a frame of peak p <= 10000 (peak 10000 included) is pushed
\* with peak exactly 3*p; a frame of peak 10000 < p < 30000 is pushed with peak
\* 29999 or 30000 (the float32 gain times p may round just below 30000 and is
\* truncated); no sample of the scaled array lies outside -32768..32767 and the
\* re-encoded payload has the length of the input.
C9_PeakRaisedTowardTarget ==
    LET arr == frombuffer(n_in)
        p   == TruePeak(arr)
        out == frombuffer(n_out)
        q   == TruePeak(out)
    IN  (NormDecoded /\ 0 < p /\ p < TARGET_PEAK) =>
            /\ Len(n_out) = Len(n_in)
            /\ MAX_GAIN * p <= TARGET_PEAK => q = MAX_GAIN * p
            /\ MAX_GAIN * p > TARGET_PEAK => q \in {TARGET_PEAK - 1, TARGET_PEAK}
            /\ p = 10000 => q = TARGET_PEAK
            /\ \A i \in 1..Len(arr) :
                  /\ normalize_arr(arr)[i] >= INT16_MIN
                  /\ normalize_arr(arr)[i] <= INT16_MAX
                  /\ out[i] = normalize_arr(arr)[i]

\* a frame of peak 10000 has been pushed with peak 30000
C9_Witness ==
    /\ NormDecoded
    /\ frombuffer(n_in) = <<100, 10000>>
    /\ frombuffer(n_out) = <<300, 30000>>

(***************************************************************************)
(* Claims about the clients' Gate and queues                               *)
(***************************************************************************)
\* the frames that are in the send queue, in the Sender's hands or written
InFlight ==
    {send_q[i] : i \in {k \in Indices(send_q) : send_q[k] # None}}
        \cup (IF send_task.pc \in {"send", "failed", "cancelled"}
                  /\ send_task.chunk # <<>>
              THEN {send_task.chunk} ELSE {})
        \cup {c_out[i].frame : i \in {k \in Indices(c_out) : c_out[k].kind = "binary"}}

IsWake(i) == glog[i].called /\ glog[i].kw >= 0

\* C1: in both clients the Gate offers a frame to the send queue only if the
\* state is Recording when the frame is processed, and the frame on which the
\* wake word is detected is never offered (nor ever on its way to the server).
C1_GateOffersOnlyWhileRecording ==
    /\ \A i \in Indices(glog) :
          /\ glog[i].offered => glog[i].st = "recording"
          /\ IsWake(i) => ~glog[i].offered /\ glog[i].frame \notin InFlight
    /\ \A f \in InFlight :
          \E i \in Indices(glog) :
              glog[i].frame = f /\ glog[i].st = "recording" /\ glog[i].accepted

\* the wake-word client ignored a frame while Idle, woke on the next one and
\* the frame after that has been written to the socket
C1_Witness ==
    /\ mode = "wake"
    /\ Len(glog) >= 3
    /\ glog[1].st = "idle" /\ glog[1].called /\ glog[1].kw < 0 /\ ~glog[1].offered
    /\ IsWake(2)
    /\ glog[3].offered
    /\ \E k \in Indices(c_out) :
          c_out[k].kind = "binary" /\ c_out[k].frame = glog[3].frame

\* the utterance opened at entry i has not been ended by a final message
\* before entry j is processed
OpenUntil(i, j) == \A k \in (i + 1)..(j - 1) : glog[k].finals = glog[i].finals

\* entry m is the first frame processed after a final message that followed
\* the wake detection at entry i
EndsAt(i, m) ==
    /\ m > i
    /\ glog[m].finals > glog[i].finals
    /\ OpenUntil(i, m)

InCaptureOrder ==
    \A i, j \in Indices(glog) : i < j => glog[i].frame[1] < glog[j].frame[1]

\* C10 as stated: in the wake-word client, after a wake detection on frame k
\* every later frame is offered, in capture order, up to and including the
\* first frame processed after a final message was received; the frame after
\* that one finds the Gate Idle and goes to the detector; frame k is never
\* offered.
C10_OfferedUntilFinal ==
    mode = "wake" =>
        /\ InCaptureOrder
        /\ \A i \in Indices(glog) : IsWake(i) =>
              /\ ~glog[i].offered /\ glog[i].frame \notin InFlight
              /\ \A j \in Indices(glog) : j > i =>
                    /\ OpenUntil(i, j)
                          => glog[j].offered /\ glog[j].st = "recording"
                    /\ EndsAt(i, j - 1) /\ glog[j - 1].offered
                          => /\ glog[j].st = "idle"
                             /\ glog[j].called

\* C10 (amended): as above, but the run of offered frames also ends when the
\* quit key stops the stream: stop_stream sets the Gate Idle without a final
\* message, and the frames still in the capture queue go to the detector.
C10_OfferedUntilFinalOrQuit ==
    mode = "wake" =>
        /\ InCaptureOrder
        /\ \A i \in Indices(glog) : IsWake(i) =>
              /\ ~glog[i].offered /\ glog[i].frame \notin InFlight
              /\ \A j \in Indices(glog) : j > i =>
                    /\ OpenUntil(i, j) /\ glog[j].stream = "open"
                          => glog[j].offered /\ glog[j].st = "recording"
                    /\ EndsAt(i, j - 1) /\ glog[j - 1].offered
                          => /\ glog[j].st = "idle"
                             /\ glog[j].called

\* wake on the first frame, the second offered, a final message, the third
\* offered too, and the fourth found the Gate Idle and went to the detector
C10_Witness ==
    /\ mode = "wake"
    /\ stream = "open"
    /\ Len(glog) = 4
    /\ IsWake(1)
    /\ glog[2].offered /\ glog[2].finals = glog[1].finals
    /\ glog[3].offered /\ EndsAt(1, 3)
    /\ glog[4].st = "idle" /\ glog[4].called /\ ~glog[4].offered

\* C7: a push onto a full send queue (by the Gate) or a full capture queue
\* (by the device callback) completes at once, drops the item and leaves the
\* queue as it was; a full queue never disables its producer; neither queue
\* ever holds more than 20 items.
C7_FullQueueDropsWithoutWaiting ==
    /\ [](Len(audio_q) <= maxsize /\ Len(send_q) <= maxsize)
    /\ [](stream = "open" /\ ncap < MaxBurst
             => ENABLED sd_callback(bytes_per_frame, MaxBurst))
    /\ [](proc_task = "running" /\ audio_q # <<>> => ENABLED processor_task)
    /\ [][(ncap' # ncap /\ Len(audio_q) = maxsize)
             => audio_q' = audio_q /\ audio_dropped' = audio_dropped + 1]_vars
    /\ [][(glog' # glog /\ Len(send_q) = maxsize /\ glog'[Len(glog')].offered)
             => send_q' = send_q /\ ~glog'[Len(glog')].accepted]_vars

\* the capture queue has refused a block and the full send queue a frame
C7_Witness ==
    /\ Len(send_q) = maxsize
    /\ audio_dropped > 0
    /\ \E i \in Indices(glog) : glog[i].offered /\ ~glog[i].accepted

(***************************************************************************)
(* Claims about the clients' keys, Sender and Listener                     *)
(***************************************************************************)
\* the key listener finishes handling key X in this step
CancelHandled == key_task = "x_send" /\ key_task' = "wait"

\* C11: in each client, a manual cancel (key X) handled while the Gate is
\* Recording leaves the Gate Idle, whatever the detector, the send queue and
\* the server's final messages are doing, and (the socket being writable)
\* writes one {"event":"stop"} text message.
C11_CancelPutsGateIdle ==
    [][(CancelHandled /\ state = "recording")
          => /\ state' = "idle"
             /\ ~server_gone => c_out' = Append(c_out, StopMsg)]_vars


IsBinary(m) == m.kind = "binary"

IsAccepted(e) == e.accepted

IsFrame(item) == item # None

\* the frames of the binary messages written to the socket, in order
SentFrames ==
    LET bin == SelectSeq(c_out, IsBinary)
    IN  [i \in 1..Len(bin) |-> bin[i].frame]

\* the frames accepted into the send queue, in order
AcceptedFrames ==
    LET acc == SelectSeq(glog, IsAccepted)
    IN  [i \in 1..Len(acc) |-> acc[i].frame]

\* the frame the Sender has taken and not written
HeldFrames ==
    IF send_task.pc \in {"send", "failed", "cancelled"} /\ send_task.chunk # <<>>
    THEN <<send_task.chunk>> ELSE <<>>

\* C12: the binary messages the Sender has written are at all times a prefix
\* of the frames accepted into the send queue (nothing reordered, duplicated
\* or written without having been enqueued); the rest of the accepted frames
\* is the frame in the Sender's hands followed by the queue's content; every
\* binary message is written by the Sender and was offered while Recording.
C12_SentIsPrefixOfAccepted ==
    /\ Len(SentFrames) <= Len(AcceptedFrames)
    /\ SubSeq(AcceptedFrames, 1, Len(SentFrames)) = SentFrames
    /\ AcceptedFrames = SentFrames \o HeldFrames \o SelectSeq(send_q, IsFrame)
    /\ \A i \in Indices(c_out) : IsBinary(c_out[i]) => c_out[i].by = "sender_task"
    /\ \A i \in Indices(glog) : glog[i].accepted => glog[i].st = "recording"

\* two frames written in the order accepted, a third accepted and not written
C12_Witness ==
    /\ Len(SentFrames) = 2
    /\ Len(AcceptedFrames) = 3
    /\ SentFrames[1] = AcceptedFrames[1]
    /\ SentFrames[2] = AcceptedFrames[2]


\* C13: once a socket write has failed inside the Sender, the failure reaches
\* the owner of the connection: run() does not stay in its wait for the key
\* listener while the Gate goes on accepting frames into a send queue that
\* no task drains.
C13_SenderFailureSurfaced ==
    [][(send_task.pc = "failed" /\ run_pc = "await_key")
          => AcceptedFrames' = AcceptedFrames]_vars


\* C14: whatever the server sends (well-formed messages, binary messages,
\* text that is not JSON, JSON whose fields have unexpected types), the
\* Listener keeps running; it stops only when the socket read itself fails.
C14_ListenerSurvivesAnyMessage ==
    recv_task = "stopped" => server_gone


\* C15: each side of a connection has one socket writer: every message the
\* client writes, audio frame or stop event, is written by the Sender task;
\* on the server the messages forwarded by fan-in tasks all come from one
\* writer and the Frame Router writes none beside them.
C15_SingleSocketWriter ==
    /\ \A i \in Indices(c_out) : c_out[i].by = "sender_task"
    /\ \A i, j \in Indices(ws_out) :
          ws_out[i].src > 0 =>
              /\ ws_out[j].type # "info"
              /\ ws_out[j].src > 0 => ws_out[j].type = ws_out[i].type

(***************************************************************************)
(* Claims about the server's teardown                                      *)
(***************************************************************************)
\* the Frame Router has read the socket's disconnect message
DisconnectRead == \E i \in Indices(rx_log) : rx_log[i].kind = "disconnect"

\* some fan-in task is still able to run
FanInAlive == \E t \in TaskNames : tasks[t].pc \in {"get", "send"}

\* the order of the teardown steps: sink closed, then session stopped and
\* fan-in cancellation requested, then socket closed; nothing written to a
\* closed sink; nothing sent once the teardown is over
TeardownInOrder ==
    /\ [](DisconnectRead =>
            /\ push_stream = "closed"
            /\ s_pc \in {"stop", "close", "done"}
            /\ s_pc = "stop" =>
                  /\ ws_state.state = "open"
                  /\ \A t \in TaskNames : tasks[t].pc # "cancelled"
            /\ s_pc \in {"close", "done"} =>
                  recognizer = "stopped" /\ pump_task # "running"
            /\ s_pc = "close" => ws_state.state = "open"
            /\ s_pc = "done" => ws_state.state = "closed")
    /\ [][push_stream = "closed" => sink' = sink]_vars
    /\ [][(DisconnectRead /\ s_pc = "done") => ws_out' = ws_out]_vars

\* C16: on a socket disconnect the server closes the audio sink, then stops
\* the recognition session, then cancels the fan-in tasks, then closes the
\* socket; nothing is written to the sink after it is closed; once the
\* fan-in tasks have been cancelled none of them is left running, and none
\* sends another message after the teardown.
C16_TeardownOrder ==
    /\ TeardownInOrder
    /\ [](DisconnectRead /\ s_pc \in {"close", "done"} => ~FanInAlive)

(***************************************************************************)
(* Claims about a session whose engine stays silent                        *)
(***************************************************************************)
\* the client's tasks and device are all at work
ClientAtWork ==
    /\ run_pc = "await_key"
    /\ stream = "open"
    /\ proc_task = "running"
    /\ key_task = "wait"
    /\ ~server_gone => send_task.pc \in {"get", "send"} /\ recv_task = "running"

\* C17: if the engine never fires a recognized event (and the user presses
\* no cancel or quit key), nothing times out or deadlocks.  Client: the Gate,
\* once Recording, stays Recording and offers every frame it processes; the
\* device, the Gate and the other tasks stay at work, the capture callback is
\* never disabled while the device has a block and the Gate never while the
\* capture queue holds one.  Server: in the router loop the socket and the
\* sink are open and the recognizer runs, a waiting message is always read,
\* every frame read has been written to the sink, the loop is left only when
\* the disconnect of the peer is read, and the handler ends and the socket is
\* closed only after the peer has gone.
C17_SilentEngineNoTimeout ==
    /\ [][state = "recording" => state' = "recording"]_vars
    /\ [](\A i, j \in Indices(glog) :
             (i <= j /\ glog[i].st = "recording")
                 => glog[j].st = "recording" /\ glog[j].offered)
    /\ [](/\ ClientAtWork
          /\ ncap < QuietCapture
                => ENABLED sd_callback(bytes_per_frame, QuietCapture)
          /\ audio_q # <<>> => ENABLED processor_task)
    /\ [](s_pc = "loop" =>
            /\ ws_state.state = "open"
            /\ push_stream = "open"
            /\ recognizer = "running"
            /\ inbox # <<>> => ENABLED frame_router)
    /\ [](FramesReceived = Len(sink))
    /\ [](s_pc \in {"stop", "close", "except", "done"} => peer_gone)
    /\ [](ws_state.state = "closed" => peer_gone)
    /\ [][(s_pc = "loop" /\ s_pc' # "loop")
             => inbox # <<>> /\ Head(inbox).kind = "disconnect"]_vars

\* the wake-word client woke on the first frame and offered the next two,
\* while the server forwarded a partial result and wrote a frame to the sink;
\* both ends are still connected
C17_Witness ==
    /\ mode = "wake"
    /\ Len(glog) = 3
    /\ IsWake(1) /\ glog[2].offered /\ glog[3].offered
    /\ state = "recording"
    /\ ~server_gone
    /\ s_pc = "loop" /\ ~peer_gone
    /\ Len(sink) = 1
    /\ \E i \in Indices(ws_out) : ws_out[i].type = "partial"

(***************************************************************************)
(* Claims about the client's stop operation and session state              *)
(***************************************************************************)
\* a step of a call of stop_stream made after an earlier call has returned
LaterStopStep ==
    \/ stop_pc = "idle" /\ stop_calls >= 1 /\ stop_calls' = stop_calls + 1
    \/ stop_pc = "send" /\ stop_calls >= 2 /\ stop_pc' = "idle"

\* C18: a call of stop_stream made when capture is already stopped is a
\* no-op: it leaves the device handle, the Gate state and the messages
\* written to the socket as the first call left them.
C18_SecondStopIsNoOp ==
    [][LaterStopStep => stream' = stream /\ state' = state /\ c_out' = c_out]_vars

\* the Gate acts on at least one frame in this step
GateStep == Len(glog') > Len(glog)

\* the Gate detects the wake word on a frame in this step
WakeStep ==
    /\ GateStep
    /\ \E i \in (Len(glog) + 1)..Len(glog') :
          glog'[i].called /\ glog'[i].kw >= 0

\* the start key of the push-to-talk client is handled in this step
StartKeyStep ==
    mode = "speech" /\ nkeys' = nkeys + 1 /\ key_task = "wait" /\ key_task' = "wait"

\* the cancel key of the push-to-talk client is handled in this step
CancelKeyStep == mode = "speech" /\ key_task = "x_send" /\ key_task' = "wait"

\* the quit key makes stop_stream run in this step
QuitKeyStep == key_task = "wait" /\ key_task' = "q_send"

\* the Listener raises the end-of-utterance signal in this step
SignalStep == finals' = finals + 1

\* C19: the session state is always Idle or Recording and starts Idle; it
\* goes from Idle to Recording only when the Gate detects the wake word
\* (wake-word client) or the start key is handled while Idle (push-to-talk
\* client), and from Recording to Idle only when the Gate acts on a frame
\* with the end-of-utterance signal raised or on an explicit cancel (the
\* cancel key of the push-to-talk client, the quit key of either); a start
\* key while Recording changes neither the state nor the signal, and a
\* signal raised while Idle leaves the state Idle.
C19_StateTransitions ==
    /\ state = "idle"
    /\ [](state \in {"idle", "recording"})
    /\ [][(state = "idle" /\ state' = "recording")
             => \/ mode = "wake" /\ WakeStep
                \/ StartKeyStep]_vars
    /\ [][(state = "recording" /\ state' = "idle")
             => \/ GateStep /\ stop_recording_evt
                \/ CancelKeyStep
                \/ QuitKeyStep]_vars
    /\ [][(StartKeyStep /\ state = "recording")
             => state' = "recording" /\ stop_recording_evt' = stop_recording_evt]_vars
    /\ [][(SignalStep /\ state = "idle") => state' = "idle"]_vars

\* the push-to-talk client went to Recording by the start key, offered a
\* frame, and the Gate went back to Idle on the signal raised by a final
C19_Witness ==
    /\ mode = "speech"
    /\ nkeys = 1 /\ key_task = "wait"
    /\ finals = 1 /\ stop_recording_evt
    /\ state = "idle"
    /\ glog # <<>>
    /\ glog[Len(glog)].st = "recording" /\ glog[Len(glog)].offered
    /\ glog[Len(glog)].finals = 1

\* C20: the session state is written by the Gate (processor_task) alone:
\* every step that changes it is a step of the Gate acting on a frame, and
\* no step of the key listener or of stop_stream changes it.
C20_OnlyGateWritesState ==
    [][state' # state => (GateStep /\ key_task' = key_task)]_vars

(***************************************************************************)
(* Claims about the Gate                                                   *)
(***************************************************************************)
\* the first frame the Gate acts on in this step
FirstNew == glog'[Len(glog) + 1]

\* C21: when the Gate, Recording, acts on a frame with the end-of-utterance
\* signal raised, it offers that frame to the send queue (the push of
\* put_nowait: the frame is dropped when the queue is full) and is Idle for
\* whatever it acts on next; a frame it acts on while Idle with the signal
\* still raised is not offered.
C21_OneMoreFrameThenIdle ==
    /\ [][(GateStep /\ state = "recording" /\ stop_recording_evt)
             => /\ FirstNew.st = "recording" /\ FirstNew.offered
                /\ FirstNew.accepted <=> Len(send_q) < maxsize
                /\ send_q' = put_nowait(send_q, FirstNew.frame)
                /\ IF Len(glog') = Len(glog) + 1
                   THEN state' = "idle"
                   ELSE glog'[Len(glog) + 2].st = "idle"]_vars
    /\ [][(GateStep /\ state = "idle" /\ stop_recording_evt)
             => ~FirstNew.offered /\ send_q' = send_q]_vars

\* the signal came while the send queue was full: the next frame was offered
\* and dropped, and the Gate is Idle
C21_Witness ==
    /\ finals = 1 /\ stop_recording_evt
    /\ state = "idle"
    /\ Len(send_q) = maxsize
    /\ glog # <<>>
    /\ glog[Len(glog)].st = "recording"
    /\ glog[Len(glog)].offered /\ ~glog[Len(glog)].accepted
    /\ glog[Len(glog)].finals = 1

(***************************************************************************)
(* Claims about the end-of-utterance signal                                *)
(***************************************************************************)
\* the messages whose type is final
FinalKinds ==
    {"final", "final_raw_object", "final_raw_not_object", "final_text_not_string"}

\* the Listener reads a message in this step (a message that is ignored and
\* is of the kind read just before leaves no trace)
ListenerStep ==
    /\ ~server_gone
    /\ run_pc' = run_pc
    /\ finals' # finals \/ recv_task' # recv_task \/ last_msg' # last_msg

\* C22: in the wake-word client the end-of-utterance signal is raised by every
\* final message the Listener reads, whatever the message carries as text, and
\* by nothing else: every step that raises it is the Listener reading a final
\* message.
C22_SignalOnFinalOnly ==
    /\ [][(ListenerStep /\ last_msg' \in FinalKinds) => stop_recording_evt']_vars
    /\ [][(~stop_recording_evt /\ stop_recording_evt')
             => (ListenerStep /\ last_msg' \in FinalKinds)]_vars

(***************************************************************************)
(* Claims about the Gate's framing                                         *)
(***************************************************************************)
\* the bytes of the chunks waiting in a queue
RECURSIVE TotalLen(_)
TotalLen(q) == IF q = <<>> THEN 0 ELSE Len(Head(q)) + TotalLen(Tail(q))

\* the bytes of the chunks the Gate has taken from the capture queue (the
\* device numbers its bytes 1, 2, ... and no chunk has been refused)
Received == nbytes - TotalLen(audio_q)

\* C23: whatever the lengths of the captured chunks, the frames the Gate has
\* acted on are the consecutive slices of bytes_per_frame bytes of the
\* concatenation of the chunks it has received, in order and each once, and
\* the carried-over remainder is what follows the last whole frame and is
\* shorter than one frame.
C23_FramesAreSlicesOfStream ==
    audio_dropped = 0 =>
        /\ Len(glog) = Received \div bytes_per_frame
        /\ \A i \in Indices(glog) :
              glog[i].frame = Range((i - 1) * bytes_per_frame + 1,
                                    i * bytes_per_frame)
        /\ leftover = Range(Len(glog) * bytes_per_frame + 1, Received)
        /\ Len(leftover) < bytes_per_frame

\* three chunks of seven bytes in all, so not all of a whole number of
\* frames: the Gate has acted on three frames and carries the seventh byte
C23_Witness ==
    /\ ncap = 3 /\ nbytes = 7 /\ audio_q = <<>>
    /\ Len(glog) = 3
    /\ glog[3].frame = <<5, 6>>
    /\ leftover = <<7>>

\* C24: in the wake-word client the detector is called on every whole frame
\* the Gate processes while Idle and on no frame it processes while
\* Recording; when the detector raises an error on a frame, that frame is not
\* offered to the send queue, the Gate is still Idle for the next frame (on
\* which the detector is called again), and the Gate goes on: it has acted on
\* every whole frame of the chunks it received.
C24_DetectorErrorKeepsIdle ==
    /\ Len(det) = Len(glog)
    /\ proc_task = "running"
    /\ audio_dropped = 0 => Len(glog) = Received \div bytes_per_frame
    /\ \A i \in Indices(glog) :
          /\ glog[i].called <=> glog[i].st = "idle"
          /\ (glog[i].called /\ det[i] = "error") =>
                /\ glog[i].kw = -1
                /\ ~glog[i].offered
                /\ glog[i].frame \notin InFlight
                /\ IF i < Len(glog)
                   THEN glog[i + 1].st = "idle" /\ glog[i + 1].called
                   ELSE state = "idle"

\* the detector failed on the first frame, detected the wake word on the
\* second, and the third frame was offered
C24_Witness ==
    /\ Len(glog) = 3
    /\ glog[1].called /\ det[1] = "error"
    /\ IsWake(2)
    /\ glog[3].offered

(***************************************************************************)
(* Claims about the server's fan-in tasks and control payloads             *)
(***************************************************************************)
\* C25: each of the five fan-in tasks is running from the moment pump_events
\* starts it until the teardown; the teardown cancels the five together;
\* once the connection handler has finished, none of them is running.
C25_FanInRunsUntilTeardown ==
    /\ [](s_pc = "loop" => \A t \in TaskNames : tasks[t].pc \in {"get", "send"})
    /\ [][(\E t \in TaskNames :
              tasks[t].pc # "cancelled" /\ tasks'[t].pc = "cancelled")
             => \A t \in TaskNames : tasks'[t].pc = "cancelled"]_vars
    /\ [](s_pc = "done" => ~FanInAlive)

\* the texts that are no stop event: no JSON, no JSON object, an object with
\* another event, the empty text
IgnoredTexts == ControlTexts \ {STOP_TEXT}

IsIgnored(m) == m.kind = "text" /\ m.text \in IgnoredTexts

IgnoredReceived == \E i \in Indices(rx_log) : IsIgnored(rx_log[i])

\* the router takes a text that is no stop event off the socket
IgnoredStep ==
    /\ Len(rx_log') = Len(rx_log) + 1
    /\ IsIgnored(rx_log'[Len(rx_log')])

\* C26: the router turn that reads a text payload which is no valid JSON, no
\* JSON object or carries no event `stop` writes nothing to the socket and
\* nothing to the audio sink and leaves the socket, the sink, the recognizer,
\* the fan-in tasks and the router loop as they were; after such a payload,
\* until a disconnect is read, the loop is still running with the session
\* open, every frame received has been written to the sink and every stop
\* received while the peer is there has been acknowledged.
C26_MalformedControlIgnored ==
    /\ [][IgnoredStep =>
             /\ ws_out' = ws_out
             /\ sink' = sink
             /\ s_pc' = "loop"
             /\ ws_state' = ws_state
             /\ push_stream' = push_stream
             /\ recognizer' = recognizer
             /\ tasks' = tasks
             /\ pump_task' = pump_task]_vars
    /\ []((IgnoredReceived /\ ~Disconnected) =>
             /\ s_pc = "loop"
             /\ ws_state.state = "open"
             /\ push_stream = "open"
             /\ recognizer = "running"
             /\ Len(sink) = FramesReceived
             /\ StopAcks <= StopsReceived
             /\ ~peer_gone => StopAcks = StopsReceived)

\* a JSON value that is no object was read and ignored, and the stop event
\* that followed it was acknowledged
C26_Witness ==
    /\ Len(rx_log) = 2
    /\ rx_log[1] = InMsg("text", "[1]", <<>>)
    /\ IsStop(rx_log[2])
    /\ ws_out = <<Msg("ready", "", 0), Msg("info", "stop_ack", 0)>>
    /\ s_pc = "loop"

(***************************************************************************)
(* Claims about shutdown, queue capacities, setup failures and the gain    *)
(***************************************************************************)
\* run()'s finally places the sentinels
ShutdownStep == run_pc = "await_key" /\ run_pc' = "sleep"

\* the frame the Gate put on the send queue has been written to the socket
Written(frame) ==
    \E j \in Indices(c_out) : c_out[j].kind = "binary" /\ c_out[j].frame = frame

SenderEnded == send_task.pc \notin {"get", "send"}

\* C27: at shutdown a sentinel is placed on the capture queue and on the send
\* queue, whatever their fill level; once the Sender has ended on a connection
\* that is still up, every frame accepted into the send queue has been
\* written to the socket.
C27_SentinelsDrainQueues ==
    /\ [][ShutdownStep =>
             /\ audio_q' = Append(audio_q, None)
             /\ send_q' = Append(send_q, None)]_vars
    /\ []((SenderEnded /\ ~server_gone) =>
             \A i \in Indices(glog) : glog[i].accepted => Written(glog[i].frame))

\* C28: the capture queue, the send queue and the five engine event queues
\* never hold more items than the capacity the program gives its queues
\* (maxsize), however fast events are produced and however slow the consumer.
C28_QueuesBounded ==
    /\ Len(audio_q) <= maxsize
    /\ Len(send_q) <= maxsize
    /\ \A q \in QueueNames : Len(queues[q]) <= maxsize

\* the credential was accepted and session setup then fails: the speech
\* configuration is missing or the recognizer cannot be created ("config"),
\* or start_continuous_recognition raises ("start")
SetupFails == authorized /\ fault # "none"

SetupErrorMsg == Msg("error", "exception", 0)

\* C29: on a connection whose credential was accepted and whose session setup
\* fails, the server writes nothing but one error message, never `ready`,
\* closes the socket only after that message, has done both when the handler
\* ends with the peer still there, and starts neither the fan-in tasks nor
\* the router loop.
C29_SetupFailureReported ==
    SetupFails =>
        /\ ws_out \in {<<>>, <<SetupErrorMsg>>}
        /\ ws_state.state = "closed" => ws_out = <<SetupErrorMsg>>
        /\ (s_pc = "done" /\ ~peer_gone) =>
              ws_state.state = "closed" /\ ws_out = <<SetupErrorMsg>>
        /\ s_pc \in {"auth", "start", "except", "done"}
        /\ pump_task = "none"
        /\ rx_log = <<>>

\* start_continuous_recognition raised on a recognizer that had been created;
\* the error was reported and the socket closed
C29_Witness ==
    /\ fault = "start"
    /\ recognizer = "created"
    /\ s_pc = "done"
    /\ ws_out = <<SetupErrorMsg>>
    /\ ws_state.state = "closed"

Sign(x) == IF x > 0 THEN 1 ELSE IF x < 0 THEN -1 ELSE 0

\* C30: with normalization enabled, the payload pushed to the sink has the
\* length of the payload received, and each of its samples has the sign of
\* the sample received in its place, an absolute value no smaller than that
\* sample's and no larger than three times it, and lies within -32768..32767
\* (the scaled value itself, before it is re-encoded in 16 bits).
C30_GainNeverAttenuates ==
    (n_done /\ n_flag) =>
        LET arr == frombuffer(n_in)
            out == frombuffer(n_out)
        IN  /\ Len(n_out) = Len(n_in)
            /\ Len(out) = Len(arr)
            /\ \A i \in 1..Len(arr) :
                  /\ Sign(out[i]) = Sign(arr[i])
                  /\ Abs(out[i]) >= Abs(arr[i])
                  /\ Abs(out[i]) <= MAX_GAIN * Abs(arr[i])
                  /\ out[i] >= INT16_MIN
                  /\ out[i] <= INT16_MAX
                  /\ (gain_applies(arr) /\ Len(n_in) % 2 = 0) =>
                        /\ normalize_arr(arr)[i] >= INT16_MIN
                        /\ normalize_arr(arr)[i] <= INT16_MAX
                        /\ out[i] = normalize_arr(arr)[i]

\* a frame of peak 15000 was pushed with gain 2: one sample raised to the
\* target, the negative one doubled
C30_Witness ==
    /\ n_done /\ n_flag
    /\ frombuffer(n_in) = <<-10013, 15000>>
    /\ frombuffer(n_out) = <<-20026, 30000>>

(***************************************************************************)
(* Claims about the audio path, the teardown paths, the credential and the *)
(* handshake                                                               *)
(***************************************************************************)
IsAudioPayload(m) == m.kind = "bytes" /\ m.bytes # <<>>

\* the non-empty binary payloads received, in the order received
FramesInOrder == SelectSeq(rx_log, IsAudioPayload)

\* C31: the audio sink holds one entry per non-empty binary payload received,
\* in the order received; with normalization disabled, or for a payload of
\* odd length, the entry is the payload byte for byte, otherwise it is the
\* re-encoded samples and has the payload's length; after a payload of odd
\* length the router loop goes on until a disconnect is read.
C31_FramesPushedOnceInOrder ==
    /\ Len(sink) = Len(FramesInOrder)
    /\ \A i \in Indices(FramesInOrder) :
          LET data == FramesInOrder[i].bytes
          IN  /\ Len(sink[i]) = Len(data)
              /\ (~normalize_flag \/ Len(data) % 2 # 0) => sink[i] = data
              /\ (normalize_flag /\ Len(data) % 2 = 0) =>
                    frombuffer(sink[i]) = normalize_arr(frombuffer(data))
    /\ ((\E i \in Indices(FramesInOrder) : Len(FramesInOrder[i].bytes) % 2 # 0)
            /\ ~Disconnected) =>
          s_pc = "loop" /\ push_stream = "open" /\ ws_state.state = "open"

\* with normalization enabled, a payload of odd length was pushed as received
\* and the frame that followed it was pushed after it, amplified
C31_Witness ==
    /\ normalize_flag
    /\ Len(rx_log) = 2
    /\ rx_log[1].bytes = <<7>>
    /\ sink = <<<<7>>, tobytes(<<300, -600>>)>>
    /\ s_pc = "loop"

\* the audio sink and the recognition session were both created
SessionCreated == push_stream # "none" /\ recognizer \in {"running", "stopped"}

\* C32: whenever the connection handler has ended after the audio sink and
\* the recognition session were created, the sink has been closed, the
\* recognition stopped, and no fan-in task is left running.
C32_TeardownOnEveryPath ==
    (s_pc = "done" /\ SessionCreated) =>
        /\ push_stream = "closed"
        /\ recognizer = "stopped"
        /\ ~FanInAlive

\* the credential a connection presents: the header when it is non-empty,
\* the query parameter otherwise
Presented == IF hdr_key = "" THEN qry_key ELSE hdr_key

\* the handler has gone past the credential check and created the audio sink
Admitted == s_pc # "auth" /\ push_stream # "none"

\* the handler has turned the connection away at the credential check
Refused == s_pc # "auth" /\ push_stream = "none"

\* C33: once the credential check is over, the connection has been admitted
\* if and only if the server's key is non-empty and equals the presented
\* credential (the header when non-empty, the query parameter otherwise), and
\* refused otherwise; a connection with a wrong non-empty header is refused
\* even when its query parameter is the server's key, and a server without a
\* key refuses every connection; a refused connection is sent nothing but
\* the unauthorized error and never gets a session.
C33_AuthorisedIffKeyMatches ==
    s_pc # "auth" =>
        /\ Admitted <=> (API_KEY # "" /\ Presented = API_KEY)
        /\ Refused <=> ~(API_KEY # "" /\ Presented = API_KEY)
        /\ (hdr_key # "" /\ hdr_key # API_KEY) => Refused
        /\ API_KEY = "" => Refused
        /\ Refused =>
              /\ ws_out \in {<<>>, <<UnauthorizedMsg>>}
              /\ recognizer = "none"
              /\ pump_task = "none"
              /\ rx_log = <<>>

\* a connection whose query parameter is the server's key but whose header is
\* wrong has been turned away
C33_Witness ==
    /\ API_KEY = "k" /\ hdr_key = "x" /\ qry_key = "k"
    /\ s_pc = "done"
    /\ ws_out = <<UnauthorizedMsg>>
    /\ ws_state = [state |-> "closed", code |-> CLOSE_UNAUTHORIZED]

\* the client has written a binary frame to the socket
AudioWritten == \E i \in Indices(c_out) : c_out[i].kind = "binary"

\* the client has not started its device stream or any of its tasks
NothingStarted ==
    /\ stream = "none"
    /\ proc_task = "none"
    /\ send_task.pc = "none"
    /\ recv_task = "none"
    /\ audio_q = <<>> /\ send_q = <<>> /\ glog = <<>> /\ c_out = <<>>

\* C34: while the client waits for the server's first message it has started
\* neither its device stream nor its Gate, Sender or Listener, and they are
\* started only in a step taken when the server has written a message; so a
\* binary frame is written by the client only after the server's first
\* message; the server writes to the audio sink only after it has sent
\* `ready`, which is then the first message it wrote.
C34_NoAudioBeforeHandshake ==
    /\ [](run_pc = "recv_ready" => NothingStarted)
    /\ [][(run_pc = "recv_ready" /\ run_pc' # "recv_ready") => ws_out # <<>>]_vars
    /\ []((AudioWritten \/ inbox # <<>> \/ rx_log # <<>>) =>
             ws_out # <<>> /\ run_pc # "recv_ready")
    /\ [](sink # <<>> => ReadyCount = 1 /\ ws_out[1].type = "ready")
    /\ [][sink' # sink => ReadyCount = 1]_vars

\* after `ready` the push-to-talk client was started, its first frame went
\* through the socket and was written to the audio sink
C34_Witness ==
    /\ mode = "speech"
    /\ ws_out = <<Msg("ready", "", 0)>>
    /\ Len(c_out) = 1 /\ c_out[1].kind = "binary"
    /\ sink = <<c_out[1].frame>>

\* the last frame on which the Gate detected the wake word
LastWake == CHOOSE i \in Indices(glog) :
                IsWake(i) /\ \A j \in Indices(glog) : IsWake(j) => j <= i

\* C35: every step that takes the Gate from Idle to Recording leaves the
\* end-of-utterance signal cleared, whether or not it was raised while Idle;
\* while Recording the signal is raised only by a final message received or
\* by the cancel key; and the Gate leaves Recording only by acting on a frame
\* with the signal raised or by an explicit cancel (cancel key, quit key).
\* Hence in the wake-word client a signal seen raised while Recording comes
\* from a final message received after the wake detection.
C35_StaleSignalCleared ==
    /\ [][(state = "idle" /\ state' = "recording") => ~stop_recording_evt']_vars
    /\ [][(state = "recording" /\ state' = "recording"
              /\ ~stop_recording_evt /\ stop_recording_evt') => SignalStep]_vars
    /\ [][(state = "recording" /\ state' = "idle")
             => \/ GateStep /\ stop_recording_evt /\ FirstNew.offered
                \/ CancelKeyStep /\ stop_recording_evt'
                \/ QuitKeyStep]_vars
    /\ []((mode = "wake" /\ state = "recording" /\ stop_recording_evt) =>
             (\E i \in Indices(glog) : IsWake(i)) /\ finals > glog[LastWake].finals)

\* a final message was received while the wake-word client was Idle; the
\* wake word was then detected and the frame after it offered, and the Gate
\* is still Recording with the signal cleared
C35_Witness ==
    /\ mode = "wake"
    /\ Len(glog) = 3
    /\ glog[1].st = "idle" /\ ~IsWake(1)
    /\ glog[2].finals = 1 /\ IsWake(2)
    /\ glog[3].offered /\ glog[3].finals = 1
    /\ finals = 1
    /\ state = "recording"
    /\ ~stop_recording_evt

=============================================================================
